---------------------------- MODULE Spec2Model ----------------------------
(***************************************************************************)
(* AjaxSecurFlow: the global admission gate, the identity-token guard, the *)
(* upstream gateway client and the response cache, each as a state machine *)
(* over the shared key-value store.  Every store round trip of the code    *)
(* (GET, SET, INCR, DECR, EXISTS, DELETE) is one step; a coroutine may be  *)
(* suspended between any two of them.                                      *)
(*                                                                         *)
(* Each component has its own specification (SpecGate, SpecAuth,           *)
(* SpecClient, SpecCache); the variables of the other components keep      *)
(* their initial values there.                                             *)
(***************************************************************************)
EXTENDS Integers, Sequences, FiniteSets, TLC

VARIABLES
    \* ---- admission gate (GlobalAjaxRateLimiter) ----
    gateClock,   \* time.time(), in gate ticks
    gts,         \* store key ajax_api:window_start
    gcnt,        \* store key ajax_api:global_counter
    gpc,         \* per caller: position in __call__
    gstart,      \* per caller: start_time
    gcur,        \* per caller: current_time
    gws,         \* per caller: window_start as read
    gres,        \* per caller: outcome of the call
    admitted,    \* history: admissions per window (keyed by window_start)
    gerr         \* history: a store operation of this call raised

gateVars == <<gateClock, gts, gcnt, gpc, gstart, gcur, gws, gres, admitted,
              gerr>>

VARIABLES
    \* ---- identity-token guard (modules/auth) ----
    authClock,   \* wall clock, in ticks of 1/TicksPerSec second
    logins,      \* number of logins so far
    issued,      \* every token minted so far; a token's jti is its index
    blacklist,   \* store keys token_blacklist:{jti}
    apc,         \* per request: position in its handler
    akind,       \* per request: "gcu" (protected call), "logout", "refresh"
    atok,        \* per request: jti of the token presented (0: not a token)
    aua,         \* per request: User-Agent header
    aip,         \* per request: client IP
    ares,        \* per request: outcome
    aaudit,      \* per request: audit events written
    acopy,       \* per request: the copy of get_current_user that served it
    anotif,      \* per request: a user notification was created
    aerr,        \* history: a store operation of this request raised
    arotBefore,  \* history: the token had been rotated when the request began
    aloBefore,   \* history: the token had been logged out when the request began
    apeers,      \* history: requests in flight with the same token at its begin
    rotated,     \* history: jtis used successfully at the refresh endpoint
    loggedOut,   \* history: jtis whose logout returned with no store error
    mints        \* history: pairs minted per presented refresh jti

authVars == <<authClock, logins, issued, blacklist, apc, akind, atok, aua, aip, ares,
              aaudit, acopy, anotif, aerr, arotBefore, aloBefore, apeers, rotated,
              loggedOut,
              mints>>

VARIABLES
    \* ---- upstream gateway client (AjaxClient), one tenant ----
    cimpl,       \* which copy of the client is wired in ("none": not yet built)
    cclock,      \* wall clock, in minutes
    clogins,     \* number of upstream logins so far
    stoken,      \* store key ajax_user:{email}:token
    sid,         \* store key ajax_user:{email}:id is present
    srefresh,    \* store key ajax_user:{email}:refresh
    unext,       \* upstream: number of session/refresh pairs minted
    uvalid,      \* upstream: the session tokens it accepts
    urefresh,    \* upstream: the refresh token it accepts (0: none)
    creq,        \* per request() call: position, locals and history
    clast,       \* history: when the last login returned, and its session token
    uconsumed    \* history: refresh tokens the upstream has accepted at /refresh

clientVars == <<cimpl, cclock, clogins, stoken, sid, srefresh, unext, uvalid,
                urefresh, creq, clast, uconsumed>>

VARIABLES
    \* ---- response cache (AjaxCacheService), one key ----
    kstore,      \* store entry of the key (serialized JSON)
    kup,         \* upstream: what fetch_func returns now
    kpc,         \* per call: position
    kop,         \* per call: "get_or_fetch" or "invalidate"
    kval,        \* per call: the value fetched, then the value returned
    kfetched,    \* history: the call invoked fetch_func
    kfresh,      \* history: an invalidate returned and no get_or_fetch began since
    kfirst,      \* history: the call is the first get_or_fetch after an invalidate
    kinv,        \* history: number of invalidate calls that have returned
    kbegan,      \* history: kinv when the call began
    kgen,        \* history: kinv when the value the call holds was fetched
    kput,        \* per call: the payload it passed to set()
    kalone,      \* history: nobody else wrote the key since the call's set()
    kerr         \* history: the store operations that raised during the call

cacheVars == <<kstore, kup, kpc, kop, kval, kfetched, kfresh, kfirst, kinv,
               kbegan, kgen, kput, kalone, kerr>>

VARIABLES
    \* ---- hub reads and the arm command (over the cache) ----
    hhubs,       \* store entry of the hub list key
    himpl,       \* per call: which client's get_hubs runs
    hsaw,        \* history: get_hubs read a live entry from the store
    harmFresh,   \* history: a set_arm_state returned, nothing happened since
    hsettled     \* history: the call began in such a state, no command since

hubVars == <<hhubs, himpl, hsaw, harmFresh, hsettled>>

VARIABLES
    \* ---- login lockout (check_ip_lockout, track_login_failure), one IP ----
    lclock,      \* wall clock, in lockout ticks
    lfail,       \* store key failed_attempts:{ip}
    llock,       \* store key lockout:{ip}
    lpc,         \* per login request: position in login_for_access_token
    lgood,       \* per login request: the upstream accepts its credentials
    lcount,      \* per login request: count returned by its INCR
    lres,        \* per login request: status answered
    lattempts,   \* number of login requests begun so far
    lacc,        \* history: failures tracked since the counter was last
                 \*   deleted (by a successful login or by a lockout)
    laccTtl,     \* history: the same, also reset when the counter key expires
    lseen,       \* history: laccTtl as of this request's INCR
    lsawLock,    \* history: the lockout key existed at this request's check
    lasked       \* history: this request reached the upstream credential check

lockVars == <<lclock, lfail, llock, lpc, lgood, lcount, lres, lattempts, lacc,
              laccTtl, lseen, lsawLock, lasked>>

VARIABLES
    \* ---- per-client RateLimiter (RateLimiter.__call__) ----
    rclock,      \* wall clock, in limiter ticks
    rstore,      \* store keys {key_prefix}:{user_id}, by user_id
    rpc,         \* per request: position in __call__
    ruser,       \* per request: its request.state.user_id
    rhost,       \* per request: its request.client.host
    rkey,        \* per request: the key it counts under
    rcount,      \* per request: current_count returned by its INCR
    rres,        \* per request: status answered
    rcalls,      \* number of requests begun so far
    radm         \* history: per key, requests admitted since the key was
                 \*   last created

rlVars == <<rclock, rstore, rpc, ruser, rhost, rkey, rcount, rres, rcalls, radm>>

VARIABLES
    \* ---- get_hubs: the enrichment of the hub list with hub details ----
    eimpl,       \* which AjaxClient runs: "services" or "modules"
    ehubs,       \* hubs_list: the hubId of each summary (0: it has none)
    efail,       \* the hubs whose detail request fails
    edet,        \* details: per task, Pending, 0 (it ended with an
                 \*   exception) or the hub whose detail it fetched
    eout,        \* "run", "ok", or the exception get_hubs ended with
    erecs        \* the records returned: [id: summary's hub, det: detail's hub]

enrVars == <<eimpl, ehubs, efail, edet, eout, erecs>>

VARIABLES
    \* ---- _save_session_data: the tenant's three session keys ----
    wtoken,      \* key ajax_user:{email}:token: the response it came from (0: none)
    wid,         \* key ajax_user:{email}:id: the response it came from
    wrefresh,    \* key ajax_user:{email}:refresh: the response it came from
    wpc,         \* per call: position in login_with_credentials / refresh_session
    wresp,       \* per call: the upstream response it holds
    wnext        \* number of upstream responses so far

saveVars == <<wtoken, wid, wrefresh, wpc, wresp, wnext>>

\* The components added after the hub reads, as one tuple.
extVars == <<lockVars, rlVars, enrVars, saveVars>>

vars == <<gateVars, authVars, clientVars, cacheVars, hubVars, extVars>>

\* What an action of one component leaves alone: the other components.
notGate == <<authVars, clientVars, cacheVars, hubVars, extVars>>
notAuth == <<gateVars, clientVars, cacheVars, hubVars, extVars>>
notClient == <<gateVars, authVars, cacheVars, hubVars, extVars>>
notCache == <<gateVars, authVars, clientVars, hubVars, extVars>>
notHub == <<gateVars, authVars, clientVars, extVars>>
\* What an action of one of the added components leaves alone.
NotOf(c) ==
    /\ UNCHANGED <<gateVars, authVars, clientVars, cacheVars, hubVars>>
    /\ IF c = "lock" THEN TRUE ELSE UNCHANGED lockVars
    /\ IF c = "rl" THEN TRUE ELSE UNCHANGED rlVars
    /\ IF c = "enr" THEN TRUE ELSE UNCHANGED enrVars
    /\ IF c = "save" THEN TRUE ELSE UNCHANGED saveVars

---------------------------------------------------------------------------
(* Bounds of the gate model.  LIMIT, WINDOW and MAX_WAIT are the class     *)
(* attributes of GlobalAjaxRateLimiter scaled down (100, 60 s, 30 s).      *)

NCallers == 3
GateMaxTime == 3
LIMIT == 1
WINDOW == 2
MAX_WAIT == 1

Callers == 1..NCallers
GateTimes == 0..GateMaxTime

\* A store key that does not exist.
Absent == [present |-> FALSE, v |-> 0, hasExp |-> FALSE, exp |-> 0]

\* redis SET key v ex=ttl at time t.
SetEx(v, ttl, t) == [present |-> TRUE, v |-> v, hasExp |-> TRUE, exp |-> t + ttl]

\* redis INCR: a missing key counts from 0 and gets no expiry; an existing
\* key keeps its expiry.
Incr(k) ==
    IF k.present THEN [k EXCEPT !.v = k.v + 1]
    ELSE [present |-> TRUE, v |-> 1, hasExp |-> FALSE, exp |-> 0]

\* redis DECR: likewise, a missing key counts from 0.
Decr(k) ==
    IF k.present THEN [k EXCEPT !.v = k.v - 1]
    ELSE [present |-> TRUE, v |-> 0 - 1, hasExp |-> FALSE, exp |-> 0]

\* The store drops a key once its expiry time is reached.
Expire(k, t) == IF k.present /\ k.hasExp /\ t >= k.exp THEN Absent ELSE k

GateInit ==
    /\ gateClock = 0
    /\ gts = Absent
    /\ gcnt = Absent
    /\ gpc = [c \in Callers |-> "idle"]
    /\ gstart = [c \in Callers |-> 0]
    /\ gcur = [c \in Callers |-> 0]
    /\ gws = [c \in Callers |-> 0]
    /\ gres = [c \in Callers |-> "none"]
    /\ admitted = [w \in GateTimes |-> 0]
    /\ gerr = [c \in Callers |-> FALSE]

\* The call ends: locals are dead.
GateReturn(c, r) ==
    /\ gpc' = [gpc EXCEPT ![c] = "done"]
    /\ gres' = [gres EXCEPT ![c] = r]
    /\ gstart' = [gstart EXCEPT ![c] = 0]
    /\ gcur' = [gcur EXCEPT ![c] = 0]
    /\ gws' = [gws EXCEPT ![c] = 0]

\* A gate that would turn a store failure into a rejection.
GateStoreError_Rejects(c) ==
    /\ gpc[c] \in {"get", "set_ts", "set_cnt", "incr", "decr"}
    /\ GateReturn(c, "503")
    /\ gerr' = [gerr EXCEPT ![c] = TRUE]
    /\ UNCHANGED <<notGate, gateClock, gts, gcnt, admitted>>

\* except Exception: return True (fail open), from any store operation.
GateStoreError(c) ==
    /\ gpc[c] \in {"get", "set_ts", "set_cnt", "incr", "decr"}
    /\ GateReturn(c, "failopen")
    /\ gerr' = [gerr EXCEPT ![c] = TRUE]
    /\ UNCHANGED <<notGate, gateClock, gts, gcnt, admitted>>

\* start_time = time.time()
GateCall(c) ==
    /\ gpc[c] = "idle"
    /\ gpc' = [gpc EXCEPT ![c] = "time"]
    /\ gstart' = [gstart EXCEPT ![c] = gateClock]
    /\ UNCHANGED <<notGate, gerr, gateClock, gts, gcnt, gcur, gws, gres, admitted>>

\* current_time = time.time(), at the top of the loop
GateReadTime(c) ==
    /\ gpc[c] = "time"
    /\ gpc' = [gpc EXCEPT ![c] = "get"]
    /\ gcur' = [gcur EXCEPT ![c] = gateClock]
    /\ UNCHANGED <<notGate, gerr, gateClock, gts, gcnt, gstart, gws, gres, admitted>>

\* window_start = GET window_start; absent or elapsed: go and reset the window
GateGet(c) ==
    /\ gpc[c] = "get"
    /\ IF ~gts.present \/ gcur[c] - gts.v >= WINDOW
       THEN /\ gpc' = [gpc EXCEPT ![c] = "set_ts"]
            /\ UNCHANGED gws
       ELSE /\ gpc' = [gpc EXCEPT ![c] = "incr"]
            /\ gws' = [gws EXCEPT ![c] = gts.v]
    /\ UNCHANGED <<notGate, gerr, gateClock, gts, gcnt, gstart, gcur, gres, admitted>>

\* SET window_start current_time ex=WINDOW
GateSetTs(c) ==
    /\ gpc[c] = "set_ts"
    /\ gts' = SetEx(gcur[c], WINDOW, gateClock)
    /\ gpc' = [gpc EXCEPT ![c] = "set_cnt"]
    /\ UNCHANGED <<notGate, gerr, gateClock, gcnt, gstart, gcur, gws, gres, admitted>>

\* SET counter 1 ex=WINDOW; return True
GateSetCnt(c) ==
    /\ gpc[c] = "set_cnt"
    /\ gcnt' = SetEx(1, WINDOW, gateClock)
    /\ admitted' = [admitted EXCEPT ![gcur[c]] = @ + 1]
    /\ GateReturn(c, "admit")
    /\ UNCHANGED <<notGate, gerr, gateClock, gts>>

\* current_count = INCR counter; <= LIMIT: return True
GateIncr(c) ==
    /\ gpc[c] = "incr"
    /\ gcnt' = Incr(gcnt)
    /\ IF gcnt'.v <= LIMIT
       THEN /\ admitted' = [admitted EXCEPT ![gws[c]] = @ + 1]
            /\ GateReturn(c, "admit")
       ELSE /\ gpc' = [gpc EXCEPT ![c] = "decr"]
            /\ UNCHANGED <<gstart, gcur, gws, gres, admitted>>
    /\ UNCHANGED <<notGate, gerr, gateClock, gts>>

\* A wait loop that would sleep again whatever the elapsed wait.
GateDecr_NoDeadline(c) ==
    /\ gpc[c] = "decr"
    /\ gcnt' = Decr(gcnt)
    /\ gpc' = [gpc EXCEPT ![c] = "sleep"]
    /\ UNCHANGED <<gstart, gcur, gws, gres>>
    /\ UNCHANGED <<notGate, gerr, gateClock, gts, admitted>>

\* DECR counter; elapsed >= MAX_WAIT: 503, else sleep RETRY_INTERVAL
GateDecr(c) ==
    /\ gpc[c] = "decr"
    /\ gcnt' = Decr(gcnt)
    /\ IF gateClock - gstart[c] >= MAX_WAIT
       THEN /\ GateReturn(c, "503")
       ELSE /\ gpc' = [gpc EXCEPT ![c] = "sleep"]
            /\ UNCHANGED <<gstart, gcur, gws, gres>>
    /\ UNCHANGED <<notGate, gerr, gateClock, gts, admitted>>

\* asyncio.sleep(RETRY_INTERVAL) returns (the interval is below one tick)
GateWake(c) ==
    /\ gpc[c] = "sleep"
    /\ gpc' = [gpc EXCEPT ![c] = "time"]
    /\ UNCHANGED <<notGate, gerr, gateClock, gts, gcnt, gstart, gcur, gws, gres, admitted>>

\* Time passes; keys whose expiry is reached disappear.
GateTick ==
    /\ gateClock < GateMaxTime
    /\ gateClock' = gateClock + 1
    /\ gts' = Expire(gts, gateClock + 1)
    /\ gcnt' = Expire(gcnt, gateClock + 1)
    /\ UNCHANGED <<notGate, gerr, gpc, gstart, gcur, gws, gres, admitted>>

GateNext ==
    \/ GateTick
    \/ \E c \in Callers :
          \/ GateCall(c)
          \/ GateReadTime(c)
          \/ GateGet(c)
          \/ GateSetTs(c)
          \/ GateSetCnt(c)
          \/ GateIncr(c)
          \/ GateDecr(c)
          \/ GateWake(c)
          \/ GateStoreError(c)

---------------------------------------------------------------------------
(* Identity-token guard: login, get_current_user, refresh, logout.         *)
(* Lifetimes are ACCESS_TOKEN_EXPIRE_MINUTES and REFRESH_TOKEN_EXPIRE_DAYS *)
(* scaled down to seconds; the clock runs in fractions of a second because *)
(* the handlers compute int(exp - now) from a float timestamp.             *)

NReq == 2
MaxLogins == 1
MaxJti == 6
AuthMaxTime == 4
TicksPerSec == 2
AccessLife == 1
RefreshLife == 2

Reqs == 1..NReq
Jtis == 1..MaxJti
UserAgents == {"ua1", "ua2"}
ClientIps == {"ip1", "ip2"}
\* The browser and address the account holder logs in from (the names are
\* interchangeable; later requests come from any agent and address).
LoginAgents == {"ua1"}
LoginIps == {"ip1"}

\* hashlib.sha256(user_agent.encode()).hexdigest()
Sha256(ua) == CASE ua = "ua1" -> "d1" [] ua = "ua2" -> "d2" [] OTHER -> "d0"

\* jwt.encode turns the datetime exp into whole seconds (timegm of the
\* utctimetuple): exp = floor(now) + lifetime.
ExpOf(t, life) == (t \div TicksPerSec) + life

\* _create_token
CreateToken(type, t, life, uah, uip) ==
    [type |-> type, exp |-> ExpOf(t, life), uah |-> uah, uip |-> uip]

\* create_access_token / create_refresh_token (a refresh token carries
\* neither uah nor uip)
CreateAccessToken(t, uah, uip) == CreateToken("access", t, AccessLife, uah, uip)
CreateRefreshToken(t) == CreateToken("refresh", t, RefreshLife, "", "")

\* jwt.decode: the signature verifies for the tokens this service issued and
\* the token is rejected once now >= exp.
DecodeOk(j, t) == j \in 1..Len(issued) /\ t < issued[j].exp * TicksPerSec

\* int(exp - now): the remaining lifetime in seconds, truncated toward zero.
TtlOf(exp, t) ==
    IF exp * TicksPerSec >= t THEN (exp * TicksPerSec - t) \div TicksPerSec
    ELSE 0 - ((t - exp * TicksPerSec) \div TicksPerSec)

\* redis EXISTS token_blacklist:{jti}
IsRevoked(j) == blacklist[j].present

\* if ttl > 0: SET token_blacklist:{jti} "1" ex=ttl
Revoke(j, t) ==
    IF TtlOf(issued[j].exp, t) > 0
    THEN [blacklist EXCEPT ![j] = SetEx(1, TtlOf(issued[j].exp, t) * TicksPerSec, t)]
    ELSE blacklist

AuthInit ==
    /\ authClock = 0
    /\ logins = 0
    /\ issued = <<>>
    /\ blacklist = [j \in Jtis |-> Absent]
    /\ apc = [r \in Reqs |-> "idle"]
    /\ akind = [r \in Reqs |-> "none"]
    /\ atok = [r \in Reqs |-> 0]
    /\ aua = [r \in Reqs |-> "ua1"]
    /\ aip = [r \in Reqs |-> "ip1"]
    /\ ares = [r \in Reqs |-> "none"]
    /\ aaudit = [r \in Reqs |-> {}]
    /\ acopy = [r \in Reqs |-> "none"]
    /\ anotif = [r \in Reqs |-> FALSE]
    /\ aerr = [r \in Reqs |-> FALSE]
    /\ arotBefore = [r \in Reqs |-> FALSE]
    /\ aloBefore = [r \in Reqs |-> FALSE]
    /\ apeers = [r \in Reqs |-> {}]
    /\ rotated = {}
    /\ loggedOut = {}
    /\ mints = [j \in Jtis |-> 0]

\* login_for_access_token with accepted upstream credentials: mints the pair.
Login(ua, ip) ==
    /\ Len(issued) + 2 <= MaxJti
    /\ logins < MaxLogins
    /\ logins' = logins + 1
    /\ issued' = issued \o <<CreateAccessToken(authClock, Sha256(ua), ip),
                             CreateRefreshToken(authClock)>>
    /\ UNCHANGED <<notAuth, authClock, blacklist, apc, akind, atok, aua, aip, ares,
                   aaudit, acopy, anotif, aerr, arotBefore, aloBefore, apeers, rotated,
                   loggedOut, mints>>

\* A client sends a request carrying token j (0: a string that is no token
\* of this service) with its own User-Agent and IP.
AuthBegin(r, kind, j, ua, ip) ==
    /\ apc[r] = "idle"
    /\ apc' = [apc EXCEPT ![r] = IF kind = "refresh" THEN "rf_check" ELSE "verify"]
    /\ akind' = [akind EXCEPT ![r] = kind]
    /\ atok' = [atok EXCEPT ![r] = j]
    /\ aua' = [aua EXCEPT ![r] = ua]
    /\ aip' = [aip EXCEPT ![r] = ip]
    /\ arotBefore' = [arotBefore EXCEPT ![r] = j \in rotated]
    /\ aloBefore' = [aloBefore EXCEPT ![r] = j \in loggedOut]
    /\ apeers' = [apeers EXCEPT ![r] =
                     {q \in Reqs : apc[q] \in {"rf_check", "rf_rotate"} /\ atok[q] = j}]
    /\ UNCHANGED <<notAuth, authClock, logins, issued, blacklist, ares, aaudit, acopy, anotif, aerr, rotated,
                   loggedOut, mints>>

AuthEnd(r, res) ==
    /\ apc' = [apc EXCEPT ![r] = "done"]
    /\ ares' = [ares EXCEPT ![r] = res]
    /\ aua' = [aua EXCEPT ![r] = "ua1"]
    /\ aip' = [aip EXCEPT ![r] = "ip1"]

\* The handler goes on to its next store operation.
AuthGoto(r, pc) ==
    /\ apc' = [apc EXCEPT ![r] = pc]
    /\ UNCHANGED <<ares, aua, aip>>

\* A guard without the fingerprint comparison.
GcuUaMismatch_Skipped(r) == FALSE

\* get_current_user up to the store lookup: decode, type, fingerprint.
GcuUaMismatch(r) ==
    issued[atok[r]].uah # "" /\ issued[atok[r]].uah # Sha256(aua[r])
GcuIpShift(r) ==
    issued[atok[r]].uip # "" /\ issued[atok[r]].uip # aip[r]
GcuReachesLookup(r) ==
    /\ DecodeOk(atok[r], authClock)
    /\ issued[atok[r]].type = "access"
    /\ ~GcuUaMismatch(r)

\* The audit events get_current_user writes for this request.
GcuAudit(r) ==
    IF ~DecodeOk(atok[r], authClock) \/ issued[atok[r]].type # "access" THEN {}
    ELSE IF GcuUaMismatch(r) THEN {"SECURITY_ALERT_UA_MISMATCH"}
    ELSE IF GcuIpShift(r) THEN {"SECURITY_INFO_IP_SHIFT"}
    ELSE {}

\* get_current_user's verdict when the store answers.
GcuAccepts(r) == GcuReachesLookup(r) /\ ~IsRevoked(atok[r])

\* The repository holds two copies of get_current_user: the one of
\* modules/auth/service.py (the dependency of the mounted routers) and the
\* one of api/v1/auth.py.
GcuCopies == {"modules", "api_v1"}

\* After the user lookup, on an IP shift, the copy of modules/ creates the
\* "Nueva IP detectada" notification; the copy of api/v1 returns the user.
GcuNotifies(r, copy) ==
    GcuAccepts(r) /\ GcuIpShift(r) /\ copy = "modules"

\* get_current_user (the dependency of every protected route and of logout).
GetCurrentUser(r) ==
    /\ apc[r] = "verify"
    /\ aaudit' = [aaudit EXCEPT ![r] = GcuAudit(r)]
    /\ \E copy \in GcuCopies :
          /\ acopy' = [acopy EXCEPT ![r] = copy]
          /\ anotif' = [anotif EXCEPT ![r] = GcuNotifies(r, copy)]
    /\ IF ~GcuAccepts(r) THEN AuthEnd(r, "401")
       ELSE IF akind[r] = "logout"
            THEN AuthGoto(r, "lo_revoke")
            ELSE AuthEnd(r, "accepted")
    /\ UNCHANGED <<notAuth, authClock, logins, issued, blacklist, akind, atok, aerr,
                   arotBefore, aloBefore, apeers, rotated, loggedOut, mints>>

\* A guard that treats a failed lookup as "not revoked".
GetCurrentUserStoreError_FailOpen(r) ==
    /\ apc[r] = "verify"
    /\ GcuReachesLookup(r)
    /\ aaudit' = [aaudit EXCEPT ![r] = GcuAudit(r)]
    /\ aerr' = [aerr EXCEPT ![r] = TRUE]
    /\ AuthEnd(r, "accepted")
    /\ UNCHANGED <<notAuth, authClock, logins, issued, blacklist, akind, atok,
                   acopy, anotif, arotBefore, aloBefore, apeers, rotated,
                   loggedOut, mints>>

\* The EXISTS of get_current_user raises: only PyJWTError is caught there,
\* so the request ends in a server error and no identity.
GetCurrentUserStoreError(r) ==
    /\ apc[r] = "verify"
    /\ GcuReachesLookup(r)
    /\ aaudit' = [aaudit EXCEPT ![r] = GcuAudit(r)]
    /\ aerr' = [aerr EXCEPT ![r] = TRUE]
    /\ AuthEnd(r, "500")
    /\ UNCHANGED <<notAuth, authClock, logins, issued, blacklist, akind, atok,
                   acopy, anotif, arotBefore, aloBefore, apeers, rotated,
                   loggedOut, mints>>

\* A logout that would also revoke the refresh token minted with the
\* access token.
Logout_RevokesPair(r) ==
    /\ apc[r] = "lo_revoke"
    /\ blacklist' = [Revoke(atok[r], authClock) EXCEPT
                        ![IF atok[r] < Len(issued) THEN atok[r] + 1 ELSE atok[r]] =
                            SetEx(1, 1, authClock)]
    /\ loggedOut' = loggedOut \cup {atok[r]}
    /\ AuthEnd(r, "logged_out")
    /\ UNCHANGED <<notAuth, authClock, logins, issued, akind, atok, aaudit, acopy, anotif, aerr,
                   arotBefore, aloBefore, apeers, rotated, mints>>

\* logout's body: blacklist the presented token for int(exp - now) seconds.
Logout(r) ==
    /\ apc[r] = "lo_revoke"
    /\ blacklist' = Revoke(atok[r], authClock)
    /\ loggedOut' = loggedOut \cup {atok[r]}
    /\ AuthEnd(r, "logged_out")
    /\ UNCHANGED <<notAuth, authClock, logins, issued, akind, atok, aaudit, acopy, anotif, aerr,
                   arotBefore, aloBefore, apeers, rotated, mints>>

\* The SET of logout raises: "except Exception: pass", the logout succeeds.
LogoutStoreError(r) ==
    /\ apc[r] = "lo_revoke"
    /\ TtlOf(issued[atok[r]].exp, authClock) > 0
    /\ aerr' = [aerr EXCEPT ![r] = TRUE]
    /\ AuthEnd(r, "logged_out")
    /\ UNCHANGED <<notAuth, authClock, logins, issued, blacklist, akind, atok, aaudit, acopy, anotif,
                   arotBefore, aloBefore, apeers, rotated, loggedOut, mints>>

\* A refresh endpoint that would take a token of any type.
RefreshPasses_AnyType(r) ==
    /\ DecodeOk(atok[r], authClock)
    /\ ~IsRevoked(atok[r])

\* refresh_token up to and including the revocation lookup.
RefreshPasses(r) ==
    /\ DecodeOk(atok[r], authClock)
    /\ issued[atok[r]].type = "refresh"
    /\ ~IsRevoked(atok[r])
RefreshCheck(r) ==
    /\ apc[r] = "rf_check"
    /\ IF RefreshPasses(r)
       THEN AuthGoto(r, "rf_rotate")
       ELSE AuthEnd(r, "401")
    /\ UNCHANGED <<notAuth, authClock, logins, issued, blacklist, akind, atok, aaudit, acopy, anotif,
                   aerr, arotBefore, aloBefore, apeers, rotated, loggedOut, mints>>

\* refresh_token from the blacklist SET on: revoke the used jti, mint a pair.
RefreshRotate(r) ==
    /\ apc[r] = "rf_rotate"
    /\ Len(issued) + 2 <= MaxJti
    /\ blacklist' = Revoke(atok[r], authClock)
    /\ issued' = issued \o <<CreateAccessToken(authClock, Sha256(aua[r]), aip[r]),
                             CreateRefreshToken(authClock)>>
    /\ rotated' = rotated \cup {atok[r]}
    /\ mints' = [mints EXCEPT ![atok[r]] = @ + 1]
    /\ AuthEnd(r, "minted")
    /\ UNCHANGED <<notAuth, authClock, logins, akind, atok, aaudit, acopy, anotif, aerr, arotBefore,
                   aloBefore, apeers, loggedOut>>

\* EXISTS or SET raises inside refresh_token: "except Exception" answers 401.
RefreshStoreError(r) ==
    /\ \/ apc[r] = "rf_check" /\ DecodeOk(atok[r], authClock)
                              /\ issued[atok[r]].type = "refresh"
       \/ apc[r] = "rf_rotate" /\ TtlOf(issued[atok[r]].exp, authClock) > 0
    /\ aerr' = [aerr EXCEPT ![r] = TRUE]
    /\ AuthEnd(r, "401")
    /\ UNCHANGED <<notAuth, authClock, logins, issued, blacklist, akind, atok, aaudit, acopy, anotif,
                   arotBefore, aloBefore, apeers, rotated, loggedOut, mints>>

\* Time passes; blacklist entries whose expiry is reached disappear.
AuthTick ==
    /\ authClock < AuthMaxTime
    /\ authClock' = authClock + 1
    /\ blacklist' = [j \in Jtis |-> Expire(blacklist[j], authClock + 1)]
    /\ UNCHANGED <<notAuth, logins, issued, apc, akind, atok, aua, aip, ares, aaudit, acopy, anotif, aerr,
                   arotBefore, aloBefore, apeers, rotated, loggedOut, mints>>

AuthNext ==
    \/ AuthTick
    \/ \E ua \in LoginAgents, ip \in LoginIps : Login(ua, ip)
    \/ \E r \in Reqs, kind \in {"gcu", "logout", "refresh"},
          j \in 0..Len(issued), ua \in UserAgents, ip \in ClientIps :
          AuthBegin(r, kind, j, ua, ip)
    \/ \E r \in Reqs :
          \/ GetCurrentUser(r)
          \/ GetCurrentUserStoreError(r)
          \/ Logout(r)
          \/ LogoutStoreError(r)
          \/ RefreshCheck(r)
          \/ RefreshRotate(r)
          \/ RefreshStoreError(r)

---------------------------------------------------------------------------
(***************************************************************************)
(* Upstream gateway client: AjaxClient.request and refresh_session over    *)
(* the per-tenant session keys, for one tenant.  The repository holds two  *)
(* copies of the client (services/ajax_client.py and                       *)
(* modules/ajax/service.py); cimpl says which one runs.  The upstream API  *)
(* is the environment: it accepts a session token while it is valid,       *)
(* answers 401 otherwise, and may answer 500 at any time; it ends a        *)
(* session when it chooses to (expiry included).                           *)
(***************************************************************************)
NClientReqs == 2        \* concurrent request() calls
MaxClientLogins == 1    \* login_with_credentials calls
MaxSess == 5            \* session/refresh token pairs the upstream mints
ClientMaxTime == 2      \* clock horizon, in minutes
ExpiresIn == 2          \* expires_in of an upstream response, in minutes
SaveBuffer == 1         \* the 60 s taken off expires_in for the cache TTL
MaxHttp == 3            \* cap of the per-request HTTP call counter

CReqs == 1..NClientReqs
SessIds == 1..MaxSess
Impls == {"services", "modules"}
Statuses == {200, 204, 401, 500}

NoKey == [present |-> FALSE, v |-> 0, exp |-> 0]

\* The upstream accepts session token s.
SessionValid(s) == s \in uvalid

\* The upstream accepts refresh token t.
RefreshValid(t) == t # 0 /\ t = urefresh

\* How the tenant's session stands when a request() begins: "missing" (no
\* token cached) or "stale" (the cached token is no longer accepted
\* upstream), in both cases with a cached refresh token and user id that
\* the upstream accepts; "other" otherwise.
SessionAtBegin ==
    IF ~(srefresh.present /\ sid /\ RefreshValid(srefresh.v)) THEN "other"
    ELSE IF ~stoken.present THEN "missing"
    ELSE IF ~SessionValid(stoken.v) THEN "stale"
    ELSE "other"

ReqIdle ==
    [pc |-> "idle", tok |-> 0, rtok |-> 0, new |-> 0, phase |-> "none",
     http |-> 0, refs |-> 0, retryRefs |-> 0, st1 |-> 0, st2 |-> 0,
     res |-> "none", begun |-> "other", quiet |-> FALSE,
     warm |-> FALSE, calm |-> FALSE, resent |-> FALSE]

ClientInit ==
    /\ cimpl = "none"
    /\ cclock = 0
    /\ clogins = 0
    /\ stoken = NoKey
    /\ sid = FALSE
    /\ srefresh = NoKey
    /\ unext = 0
    /\ uvalid = {}
    /\ urefresh = 0
    /\ creq = [r \in CReqs |-> ReqIdle]
    /\ clast = [at |-> -1, tok |-> 0]
    /\ uconsumed = {}

InFlight(rec) == rec.pc \notin {"idle", "done"}

\* The application builds its client: one of the two AjaxClient classes.
ClientConstruct(impl) ==
    /\ cimpl = "none"
    /\ cimpl' = impl
    /\ UNCHANGED <<notClient, cclock, clogins, clast, stoken, sid, srefresh, unext,
                   uvalid, urefresh, uconsumed, creq>>

\* Something outside the requests in `keep` happened: they no longer run
\* undisturbed.  With no request behind it (a login, the upstream ending a
\* session) it also ends the calm of every request.
Disturbed(f, keep) ==
    [o \in CReqs |-> IF o \in keep THEN f[o]
                     ELSE [f[o] EXCEPT !.quiet = FALSE,
                                       !.calm = @ /\ keep # {}]]

\* The TTL _save_session_data gives the token key.
TokenTtl == ExpiresIn - SaveBuffer

\* The token key the last login wrote has not reached its TTL.
LoginTokenLive == clast.at >= 0 /\ cclock < clast.at + TokenTtl

\* request() returns or raises.
Finished(rec, res) ==
    [rec EXCEPT !.pc = "done", !.res = res, !.tok = 0, !.rtok = 0, !.new = 0,
                !.phase = "none"]

\* The upstream mints pair n; it may or may not drop the older sessions.
UpstreamMint(n, dropOld) ==
    /\ unext' = n
    /\ uvalid' = (IF dropOld THEN {} ELSE uvalid) \cup {n}
    /\ urefresh' = n

\* A login that would cache the token for the whole upstream expiry.
ClientLogin_NoBuffer(dropOld) ==
    /\ cimpl # "none"
    /\ clogins < MaxClientLogins
    /\ unext < MaxSess
    /\ clogins' = clogins + 1
    /\ UpstreamMint(unext + 1, dropOld)
    /\ stoken' = [present |-> TRUE, v |-> unext + 1, exp |-> cclock + ExpiresIn]
    /\ sid' = TRUE
    /\ srefresh' = [present |-> TRUE, v |-> unext + 1, exp |-> 0]
    /\ creq' = Disturbed(creq, {})
    /\ clast' = [at |-> cclock, tok |-> unext + 1]
    /\ UNCHANGED <<notClient, cimpl, cclock, uconsumed>>

\* login_with_credentials with accepted credentials: POST /login, then
\* _save_session_data.
ClientLogin(dropOld) ==
    /\ cimpl # "none"
    /\ clogins < MaxClientLogins
    /\ unext < MaxSess
    /\ clogins' = clogins + 1
    /\ UpstreamMint(unext + 1, dropOld)
    /\ stoken' = [present |-> TRUE, v |-> unext + 1,
                  exp |-> cclock + (ExpiresIn - SaveBuffer)]
    /\ sid' = TRUE
    /\ srefresh' = [present |-> TRUE, v |-> unext + 1, exp |-> 0]
    /\ creq' = Disturbed(creq, {})
    /\ clast' = [at |-> cclock, tok |-> unext + 1]
    /\ UNCHANGED <<notClient, cimpl, cclock, uconsumed>>

\* request(): token = _get_session_token(); a miss goes to refresh_session.
RequestStart_NoRefreshOnMiss(r) ==
    /\ cimpl # "none"
    /\ creq[r].pc = "idle"
    /\ creq' = [creq EXCEPT ![r] =
                  IF stoken.present
                  THEN [@ EXCEPT !.pc = "call1", !.tok = stoken.v,
                                 !.begun = SessionAtBegin, !.quiet = TRUE,
                                 !.warm = LoginTokenLive, !.calm = TRUE]
                  ELSE Finished([@ EXCEPT !.begun = SessionAtBegin,
                                          !.quiet = TRUE,
                                          !.warm = LoginTokenLive,
                                          !.calm = TRUE],
                                "AjaxAuthError")]
    /\ UNCHANGED <<notClient, cimpl, cclock, clogins, clast, stoken, sid, srefresh,
                   unext, uvalid, urefresh, uconsumed>>

RequestStart(r) ==
    /\ cimpl # "none"
    /\ creq[r].pc = "idle"
    /\ LET hit == stoken.present
           me == [creq[r] EXCEPT
                    !.pc = IF hit THEN "call1" ELSE "rf_get_refresh",
                    !.tok = IF hit THEN stoken.v ELSE 0,
                    !.phase = IF hit THEN "none" ELSE "miss",
                    !.refs = IF hit THEN 0 ELSE 1,
                    !.begun = SessionAtBegin,
                    !.quiet = \A o \in CReqs \ {r} : ~InFlight(creq[o]),
                    !.warm = LoginTokenLive,
                    !.calm = TRUE]
       IN creq' = Disturbed([creq EXCEPT ![r] = me], {r})
    /\ UNCHANGED <<notClient, cimpl, cclock, clogins, clast, stoken, sid, srefresh,
                   unext, uvalid, urefresh, uconsumed>>

\* refresh_session(): refresh_token = _get_refresh_token().
RefreshGetToken(r) ==
    /\ creq[r].pc = "rf_get_refresh"
    /\ creq' = [creq EXCEPT ![r] =
                  [@ EXCEPT !.pc = "rf_get_id",
                            !.rtok = IF srefresh.present THEN srefresh.v ELSE 0]]
    /\ UNCHANGED <<notClient, cimpl, cclock, clogins, clast, stoken, sid, srefresh,
                   unext, uvalid, urefresh, uconsumed>>

\* refresh_session(): user_id = _get_ajax_user_id(); without a refresh token
\* or a user id it raises AjaxAuthError.
RefreshGetId(r) ==
    /\ creq[r].pc = "rf_get_id"
    /\ creq' = [creq EXCEPT ![r] =
                  IF creq[r].rtok = 0 \/ ~sid
                  THEN Finished(@, "AjaxAuthError")
                  ELSE [@ EXCEPT !.pc = "rf_post"]]
    /\ UNCHANGED <<notClient, cimpl, cclock, clogins, clast, stoken, sid, srefresh,
                   unext, uvalid, urefresh, uconsumed>>

\* refresh_session(): POST /refresh accepted; the upstream rotates the pair.
RefreshPostOk(r, dropOld) ==
    /\ creq[r].pc = "rf_post"
    /\ RefreshValid(creq[r].rtok)
    /\ unext < MaxSess
    /\ UpstreamMint(unext + 1, dropOld)
    /\ uconsumed' = uconsumed \cup {creq[r].rtok}
    /\ creq' = Disturbed([creq EXCEPT ![r] =
                            [@ EXCEPT !.pc = "rf_set_token", !.new = unext + 1]],
                         {r})
    /\ UNCHANGED <<notClient, cimpl, cclock, clogins, clast, stoken, sid, srefresh>>

\* refresh_session(): POST /refresh answered with an error status (401 for
\* a refresh token the upstream no longer accepts, 500 at any time);
\* raise_for_status() raises and both clients turn it into AjaxAuthError.
RefreshPostFails(r, status) ==
    /\ creq[r].pc = "rf_post"
    /\ status \in {401, 500}
    /\ status = 401 => ~RefreshValid(creq[r].rtok)
    /\ creq' = [creq EXCEPT ![r] =
                  Finished([@ EXCEPT !.quiet = @ /\ status # 500,
                                     !.calm = @ /\ status # 500,
                                     !.resent = creq[r].rtok \in uconsumed],
                           "AjaxAuthError")]
    /\ UNCHANGED <<notClient, cimpl, cclock, clogins, clast, stoken, sid, srefresh,
                   unext, uvalid, urefresh, uconsumed>>

\* _save_session_data(): set(token, ex=expires_in - 60).
SaveToken(r) ==
    /\ creq[r].pc = "rf_set_token"
    /\ stoken' = [present |-> TRUE, v |-> creq[r].new,
                  exp |-> cclock + (ExpiresIn - SaveBuffer)]
    /\ creq' = [creq EXCEPT ![r] = [@ EXCEPT !.pc = "rf_set_id"]]
    /\ UNCHANGED <<notClient, cimpl, cclock, clogins, clast, sid, srefresh,
                   unext, uvalid, urefresh, uconsumed>>

\* _save_session_data(): set(id).
SaveId(r) ==
    /\ creq[r].pc = "rf_set_id"
    /\ sid' = TRUE
    /\ creq' = [creq EXCEPT ![r] = [@ EXCEPT !.pc = "rf_set_refresh"]]
    /\ UNCHANGED <<notClient, cimpl, cclock, clogins, clast, stoken, srefresh,
                   unext, uvalid, urefresh, uconsumed>>

\* _save_session_data(): set(refresh, ex=604800); refresh_session returns
\* the new token to request(), which goes on to the call it was about to make.
SaveRefresh(r) ==
    /\ creq[r].pc = "rf_set_refresh"
    /\ srefresh' = [present |-> TRUE, v |-> creq[r].new, exp |-> 0]
    /\ creq' = [creq EXCEPT ![r] =
                  [@ EXCEPT !.pc = IF creq[r].phase = "miss" THEN "call1"
                                   ELSE "call2",
                            !.tok = creq[r].new]]
    /\ UNCHANGED <<notClient, cimpl, cclock, clogins, clast, stoken, sid,
                   unext, uvalid, urefresh, uconsumed>>

\* What the upstream answers to a call carrying session token tok.
Answers(tok) ==
    IF SessionValid(tok) THEN {200, 204, 500} ELSE {401, 500}

\* request(): response = _do_req(token); on 401 it enters refresh_session.
DoReq(r, status) ==
    /\ creq[r].pc = "call1"
    /\ status \in Answers(creq[r].tok)
    /\ creq' = [creq EXCEPT ![r] =
                  LET seen == [@ EXCEPT !.http = @ + 1, !.st1 = status] IN
                  CASE status = 401 ->
                         [seen EXCEPT !.pc = "rf_get_refresh", !.phase = "retry",
                                      !.refs = @ + 1, !.retryRefs = @ + 1]
                    [] status = 500 ->
                         Finished([seen EXCEPT !.quiet = FALSE, !.calm = FALSE],
                                  "HTTPStatusError")
                    [] OTHER -> Finished(seen, "ok")]
    /\ UNCHANGED <<notClient, cimpl, cclock, clogins, clast, stoken, sid, srefresh,
                   unext, uvalid, urefresh, uconsumed>>

\* What request() does with the status of the retried call.  The client of
\* services/ raises AjaxAuthError on a second 401; the client of modules/
\* has only raise_for_status().
RetryOutcome(impl, status) ==
    CASE status = 401 ->
           IF impl = "services" THEN "AjaxAuthError" ELSE "HTTPStatusError"
      [] status = 500 -> "HTTPStatusError"
      [] OTHER -> "ok"

\* A client that would go round again on a second 401.
DoReqRetry_Loops(r, status) ==
    /\ creq[r].pc = "call2"
    /\ creq[r].http < MaxHttp
    /\ status \in Answers(creq[r].tok)
    /\ creq' = [creq EXCEPT ![r] =
                  LET seen == [@ EXCEPT !.http = @ + 1, !.st2 = status] IN
                  IF status = 401
                  THEN [seen EXCEPT !.pc = "rf_get_refresh", !.phase = "retry",
                                    !.refs = @ + 1, !.retryRefs = @ + 1]
                  ELSE Finished([seen EXCEPT !.quiet = @ /\ status # 500,
                                             !.calm = @ /\ status # 500],
                                RetryOutcome(cimpl, status))]
    /\ UNCHANGED <<notClient, cimpl, cclock, clogins, clast, stoken, sid, srefresh,
                   unext, uvalid, urefresh, uconsumed>>

\* request(): response = _do_req(new_token), the one retry.
DoReqRetry(r, status) ==
    /\ creq[r].pc = "call2"
    /\ status \in Answers(creq[r].tok)
    /\ creq' = [creq EXCEPT ![r] =
                  Finished([@ EXCEPT !.http = @ + 1, !.st2 = status,
                                     !.quiet = @ /\ status # 500,
                                     !.calm = @ /\ status # 500],
                           RetryOutcome(cimpl, status))]
    /\ UNCHANGED <<notClient, cimpl, cclock, clogins, clast, stoken, sid, srefresh,
                   unext, uvalid, urefresh, uconsumed>>

\* The upstream ends a session (it expired, the account signed in elsewhere,
\* an operator revoked it).
UpstreamDropSession(s) ==
    /\ SessionValid(s)
    /\ uvalid' = uvalid \ {s}
    /\ creq' = Disturbed(creq, {})
    /\ UNCHANGED <<notClient, cimpl, cclock, clogins, clast, stoken, sid, srefresh,
                   unext, urefresh, uconsumed>>

\* The upstream stops accepting the current refresh token.
UpstreamDropRefresh ==
    /\ urefresh # 0
    /\ urefresh' = 0
    /\ creq' = Disturbed(creq, {})
    /\ UNCHANGED <<notClient, cimpl, cclock, clogins, clast, stoken, sid, srefresh,
                   unext, uvalid, uconsumed>>

\* A minute passes: the token key expires in the store when its TTL is up.
ClientTick ==
    /\ cclock < ClientMaxTime
    /\ cclock' = cclock + 1
    /\ stoken' = IF stoken.present /\ stoken.exp <= cclock + 1 THEN NoKey ELSE stoken
    /\ UNCHANGED <<notClient, cimpl, clogins, clast, sid, srefresh, unext, uvalid,
                   urefresh, uconsumed, creq>>

ClientNext ==
    \/ \E i \in Impls : ClientConstruct(i)
    \/ \E d \in BOOLEAN : ClientLogin(d)
    \/ \E r \in CReqs : RequestStart(r)
    \/ \E r \in CReqs : RefreshGetToken(r)
    \/ \E r \in CReqs : RefreshGetId(r)
    \/ \E r \in CReqs, d \in BOOLEAN : RefreshPostOk(r, d)
    \/ \E r \in CReqs, st \in Statuses : RefreshPostFails(r, st)
    \/ \E r \in CReqs : SaveToken(r)
    \/ \E r \in CReqs : SaveId(r)
    \/ \E r \in CReqs : SaveRefresh(r)
    \/ \E r \in CReqs, st \in Statuses : DoReq(r, st)
    \/ \E r \in CReqs, st \in Statuses : DoReqRetry(r, st)
    \/ \E s \in SessIds : UpstreamDropSession(s)
    \/ UpstreamDropRefresh
    \/ ClientTick

---------------------------------------------------------------------------
(***************************************************************************)
(* Response cache: AjaxCacheService.get_or_fetch and invalidate on one     *)
(* key.  The store may raise on any operation; the TTL of an entry may     *)
(* elapse at any time; the upstream value may change at any time.          *)
(***************************************************************************)
NCacheCalls == 3        \* concurrent cache calls on the key

KCalls == 1..NCacheCalls
CacheValues == {"none", "empty", "hubs1", "hubs2"}

\* json.dumps(value, default=str): None, [], two different hub lists; a
\* datetime ("stamp") goes through str(), a tuple ("pair") is written as a
\* JSON array, like the list [1, 2] ("list12"); "stamptext" is the string
\* str() gives for the datetime.
Dumps(v) ==
    CASE v = "none" -> "null"
      [] v = "empty" -> "[]"
      [] v = "hubs1" -> "[{\"hubId\": 1}]"
      [] v = "hubs2" -> "[{\"hubId\": 2}]"
      [] v \in {"stamp", "stamptext"} -> "\"2024-01-01 00:00:00\""
      [] OTHER -> "[1, 2]"

\* json.loads(serialized).
Loads(s) ==
    CASE s = "null" -> "none"
      [] s = "[]" -> "empty"
      [] s = "[{\"hubId\": 1}]" -> "hubs1"
      [] s = "[{\"hubId\": 2}]" -> "hubs2"
      [] s = "\"2024-01-01 00:00:00\"" -> "stamptext"
      [] OTHER -> "list12"

\* An entry carries its serialized value; gen (history) is the number of
\* invalidate calls that had returned when the value was fetched.
NoEntry == [present |-> FALSE, s |-> "", gen |-> 0]

CacheInit ==
    /\ kstore = NoEntry
    /\ kup = "hubs1"
    /\ kpc = [p \in KCalls |-> "idle"]
    /\ kop = [p \in KCalls |-> "none"]
    /\ kval = [p \in KCalls |-> "none"]
    /\ kfetched = [p \in KCalls |-> FALSE]
    /\ kfresh = FALSE
    /\ kfirst = [p \in KCalls |-> FALSE]
    /\ kinv = 0
    /\ kbegan = [p \in KCalls |-> 0]
    /\ kgen = [p \in KCalls |-> 0]
    /\ kput = [p \in KCalls |-> "none"]
    /\ kalone = [p \in KCalls |-> FALSE]
    /\ kerr = [p \in KCalls |-> {}]

\* The call returns (or raises) with value v.
CacheReturn(p, v) ==
    /\ kpc' = [kpc EXCEPT ![p] = "done"]
    /\ kval' = [kval EXCEPT ![p] = v]

\* get_or_fetch() is entered; its first await is the store GET of get().
GetOrFetchEnter(p) ==
    /\ kpc[p] = "idle"
    /\ kpc' = [kpc EXCEPT ![p] = "gof_get"]
    /\ kop' = [kop EXCEPT ![p] = "get_or_fetch"]
    /\ kfirst' = [kfirst EXCEPT ![p] = kfresh]
    /\ kbegan' = [kbegan EXCEPT ![p] = kinv]
    /\ kfresh' = FALSE

\* get_or_fetch() is called on the key.
GetOrFetchCall(p) ==
    /\ GetOrFetchEnter(p)
    /\ UNCHANGED <<notCache, kstore, kup, kval, kfetched, kinv, kgen, kput, kalone, kerr>>

\* get(): the raw string is tested for truth, then parsed; get_or_fetch
\* returns it unless it is None.
Get(p) ==
    /\ kpc[p] = "gof_get"
    /\ IF kstore.present /\ kstore.s # "" /\ Loads(kstore.s) # "none"
       THEN CacheReturn(p, Loads(kstore.s))
            /\ kgen' = [kgen EXCEPT ![p] = kstore.gen]
       ELSE kpc' = [kpc EXCEPT ![p] = "gof_fetch"] /\ UNCHANGED <<kval, kgen>>
    /\ UNCHANGED <<notCache, kstore, kup, kop, kfetched, kfresh, kfirst, kinv, kbegan, kput, kalone, kerr>>

\* A get() that lets the store's exception through.
GetStoreError_Propagates(p) ==
    /\ kpc[p] = "gof_get"
    /\ CacheReturn(p, "StoreError")
    /\ kerr' = [kerr EXCEPT ![p] = @ \cup {"get"}]
    /\ UNCHANGED <<notCache, kstore, kup, kop, kfetched, kfresh, kfirst, kinv,
                   kbegan, kgen, kput, kalone>>

\* get(): the store raises; get() returns None.
GetStoreError(p) ==
    /\ kpc[p] = "gof_get"
    /\ kpc' = [kpc EXCEPT ![p] = "gof_fetch"]
    /\ kerr' = [kerr EXCEPT ![p] = @ \cup {"get"}]
    /\ UNCHANGED <<notCache, kstore, kup, kop, kval, kfetched, kfresh, kfirst, kinv,
                   kbegan, kgen, kput, kalone>>

\* get_or_fetch(): result = await fetch_func().
Fetch(p) ==
    /\ kpc[p] = "gof_fetch"
    /\ kpc' = [kpc EXCEPT ![p] = "gof_set"]
    /\ kval' = [kval EXCEPT ![p] = kup]
    /\ kfetched' = [kfetched EXCEPT ![p] = TRUE]
    /\ kgen' = [kgen EXCEPT ![p] = kinv]
    /\ UNCHANGED <<notCache, kstore, kup, kop, kfresh, kfirst, kinv, kbegan, kput, kalone, kerr>>

\* set(): the entry is written with the TTL; get_or_fetch returns result.
Set(p) ==
    /\ kpc[p] = "gof_set"
    /\ kstore' = [present |-> TRUE, s |-> Dumps(kval[p]), gen |-> kgen[p]]
    /\ CacheReturn(p, kval[p])
    /\ UNCHANGED <<notCache, kup, kop, kfetched, kfresh, kfirst, kinv, kbegan, kgen, kput, kalone, kerr>>

\* set(): the store raises; set() returns False and get_or_fetch result.
SetStoreError(p) ==
    /\ kpc[p] = "gof_set"
    /\ CacheReturn(p, kval[p])
    /\ kerr' = [kerr EXCEPT ![p] = @ \cup {"set"}]
    /\ UNCHANGED <<notCache, kstore, kup, kop, kfetched, kfresh, kfirst, kinv,
                   kbegan, kgen, kput, kalone>>

\* invalidate(): the store deletes the key; invalidate returns.
Invalidate(p) ==
    /\ kpc[p] = "idle"
    /\ kop' = [kop EXCEPT ![p] = "invalidate"]
    /\ kstore' = NoEntry
    /\ CacheReturn(p, "none")
    /\ kfresh' = TRUE
    /\ kinv' = kinv + 1
    /\ UNCHANGED <<notCache, kup, kfetched, kfirst, kbegan, kgen, kput, kalone, kerr>>

\* invalidate(): the store raises on delete; invalidate logs a warning and
\* returns False.
InvalidateStoreError(p) ==
    /\ kpc[p] = "idle"
    /\ kop' = [kop EXCEPT ![p] = "invalidate"]
    /\ CacheReturn(p, "none")
    /\ kfresh' = TRUE
    /\ kinv' = kinv + 1
    /\ kerr' = [kerr EXCEPT ![p] = @ \cup {"delete"}]
    /\ UNCHANGED <<notCache, kstore, kup, kfetched, kfirst, kbegan, kgen, kput, kalone>>

\* The TTL of the entry elapses.
CacheExpire ==
    /\ kstore.present
    /\ kstore' = NoEntry
    /\ UNCHANGED <<notCache, kup, kpc, kop, kval, kfetched, kfresh, kfirst, kinv, kbegan, kgen, kput, kalone, kerr>>

\* The upstream data changes (a hub is armed, a device is added).
UpstreamChange(v) ==
    /\ v # kup
    /\ v # "none"
    /\ kup' = v
    /\ UNCHANGED <<notCache, kstore, kpc, kop, kval, kfetched, kfresh, kfirst, kinv, kbegan, kgen, kput, kalone, kerr>>

CacheNext ==
    \/ \E p \in KCalls : GetOrFetchCall(p)
    \/ \E p \in KCalls : Get(p)
    \/ \E p \in KCalls : GetStoreError(p)
    \/ \E p \in KCalls : Fetch(p)
    \/ \E p \in KCalls : Set(p)
    \/ \E p \in KCalls : SetStoreError(p)
    \/ \E p \in KCalls : Invalidate(p)
    \/ \E p \in KCalls : InvalidateStoreError(p)
    \/ CacheExpire
    \/ \E v \in CacheValues : UpstreamChange(v)

---------------------------------------------------------------------------
(***************************************************************************)
(* set(key, v, ttl) followed by get(key), by one caller, on the key of the *)
(* response cache.  The payloads are the values above and three that JSON  *)
(* does not carry as they are: a datetime, a tuple, the string and the     *)
(* list they come back as.                                                 *)
(***************************************************************************)
CachePayloads == CacheValues \cup {"stamp", "stamptext", "pair", "list12"}

\* set(key, v, ttl) with ttl > 0: the entry is replaced by the serialized
\* value; set returns True.  A caller between its set and its get is no
\* longer alone on the key.
PutCall(p, v) ==
    /\ kpc[p] = "idle"
    /\ kpc' = [kpc EXCEPT ![p] = "rt_get"]
    /\ kop' = [kop EXCEPT ![p] = "set_get"]
    /\ kstore' = [present |-> TRUE, s |-> Dumps(v), gen |-> kinv]
    /\ kput' = [kput EXCEPT ![p] = v]
    /\ kalone' = [q \in KCalls |-> q = p]
    /\ UNCHANGED <<notCache, kup, kval, kfetched, kfresh, kfirst, kinv, kbegan,
                   kgen, kerr>>

\* set(key, v, ttl): the store raises; set returns False (v not accepted).
PutStoreError(p, v) ==
    /\ kpc[p] = "idle"
    /\ kpc' = [kpc EXCEPT ![p] = "rt_get"]
    /\ kop' = [kop EXCEPT ![p] = "set_get"]
    /\ kput' = [kput EXCEPT ![p] = v]
    /\ kalone' = [kalone EXCEPT ![p] = FALSE]
    /\ UNCHANGED <<notCache, kstore, kup, kval, kfetched, kfresh, kfirst, kinv,
                   kbegan, kgen, kerr>>

\* get(key): the raw string is tested for truth, then parsed.
GetBack(p) ==
    /\ kpc[p] = "rt_get"
    /\ CacheReturn(p, IF kstore.present /\ kstore.s # "" THEN Loads(kstore.s)
                      ELSE "none")
    /\ UNCHANGED <<notCache, kstore, kup, kop, kfetched, kfresh, kfirst, kinv,
                   kbegan, kgen, kput, kalone, kerr>>

\* get(key): the store raises; get returns None.
GetBackStoreError(p) ==
    /\ kpc[p] = "rt_get"
    /\ CacheReturn(p, "none")
    /\ kalone' = [kalone EXCEPT ![p] = FALSE]
    /\ UNCHANGED <<notCache, kstore, kup, kop, kfetched, kfresh, kfirst, kinv,
                   kbegan, kgen, kput, kerr>>

RoundTripNext ==
    \/ \E p \in KCalls, v \in CachePayloads : PutCall(p, v)
    \/ \E p \in KCalls, v \in CachePayloads : PutStoreError(p, v)
    \/ \E p \in KCalls : GetBack(p)
    \/ \E p \in KCalls : GetBackStoreError(p)

---------------------------------------------------------------------------
(***************************************************************************)
(* Hub reads and the arm command over the cache: get_hub_details (a        *)
(* get_or_fetch on the hub key), get_hubs (get / fetch / set on the hub    *)
(* list key) and set_arm_state (the upstream command, then invalidate of   *)
(* both keys).  kup is the tenant's upstream data: no hub ("empty") or one *)
(* hub in one of two arm states.                                           *)
(***************************************************************************)
HubStates == {"hubs1", "hubs2"}

\* Python truth of a cached value: None and [] are false.
Truthy(v) == v \notin {"none", "empty"}

\* No set_arm_state call is between its command and its return, except p.
NoArmInFlight(p) ==
    \A q \in KCalls \ {p} : kpc[q] \notin {"arm_inv_hub", "arm_inv_hubs"}

HubInit ==
    /\ hhubs = NoEntry
    /\ himpl = [p \in KCalls |-> "none"]
    /\ hsaw = [p \in KCalls |-> FALSE]
    /\ harmFresh = FALSE
    /\ hsettled = [p \in KCalls |-> FALSE]

\* get_hub_details(): cache.get_or_fetch(key_hub, CACHE_TTL_HUB_DETAIL, ...).
GetHubDetails(p) ==
    /\ GetOrFetchEnter(p)
    /\ hsettled' = [hsettled EXCEPT ![p] = harmFresh]
    /\ harmFresh' = FALSE
    /\ UNCHANGED <<notHub, kstore, kup, kval, kfetched, kinv, kgen, hhubs, himpl,
                   hsaw, kput, kalone, kerr>>

\* set_arm_state(): the PUT .../commands/arming succeeds; the hub changes
\* state upstream.
ArmCommand(p, v) ==
    /\ kpc[p] = "idle"
    /\ kup \in HubStates /\ v \in HubStates /\ v # kup
    /\ kup' = v
    /\ kpc' = [kpc EXCEPT ![p] = "arm_inv_hub"]
    /\ kop' = [kop EXCEPT ![p] = "set_arm_state"]
    /\ harmFresh' = FALSE
    /\ hsettled' = [q \in KCalls |-> FALSE]
    /\ UNCHANGED <<notHub, kstore, kval, kfetched, kfresh, kfirst, kinv, kbegan,
                   kgen, hhubs, himpl, hsaw, kput, kalone, kerr>>

\* set_arm_state(): request() raises (the upstream refuses the command);
\* nothing is invalidated.
ArmCommandFails(p) ==
    /\ kpc[p] = "idle"
    /\ kpc' = [kpc EXCEPT ![p] = "done"]
    /\ kop' = [kop EXCEPT ![p] = "set_arm_state_failed"]
    /\ UNCHANGED <<notHub, kstore, kup, kval, kfetched, kfresh, kfirst, kinv,
                   kbegan, kgen, hubVars, kput, kalone, kerr>>

\* set_arm_state(): cache.invalidate(key_hub); ok says whether the store's
\* delete went through (invalidate swallows the exception otherwise).
ArmInvalidateHub(p, ok) ==
    /\ kpc[p] = "arm_inv_hub"
    /\ kstore' = IF ok THEN NoEntry ELSE kstore
    /\ kpc' = [kpc EXCEPT ![p] = "arm_inv_hubs"]
    /\ kfresh' = TRUE
    /\ kinv' = kinv + 1
    /\ UNCHANGED <<notHub, kup, kop, kval, kfetched, kfirst, kbegan, kgen,
                   hubVars, kput, kalone, kerr>>

\* set_arm_state(): cache.invalidate(key_hubs); return result.
ArmInvalidateHubs(p, ok) ==
    /\ kpc[p] = "arm_inv_hubs"
    /\ hhubs' = IF ok THEN NoEntry ELSE hhubs
    /\ kpc' = [kpc EXCEPT ![p] = "done"]
    /\ harmFresh' = NoArmInFlight(p)
    /\ UNCHANGED <<notHub, kstore, kup, kop, kval, kfetched, kfresh, kfirst,
                   kinv, kbegan, kgen, himpl, hsaw, hsettled, kput, kalone, kerr>>

\* get_hubs() of one of the two clients is called; its first await is the
\* store GET of cache.get(key_hubs).
GetHubs(p, impl) ==
    /\ kpc[p] = "idle"
    /\ kpc' = [kpc EXCEPT ![p] = "hubs_get"]
    /\ kop' = [kop EXCEPT ![p] = "get_hubs"]
    /\ himpl' = [himpl EXCEPT ![p] = impl]
    /\ UNCHANGED <<notHub, kstore, kup, kval, kfetched, kfresh, kfirst, kinv,
                   kbegan, kgen, hhubs, hsaw, harmFresh, hsettled, kput, kalone, kerr>>

\* What get_hubs() makes of cache.get(): services/ returns it unless it is
\* None, modules/ returns it only if it is true.
HubsHit(impl, v) ==
    IF impl = "services" THEN v # "none" ELSE Truthy(v)

\* get_hubs(): cached = await cache.get(key_hubs).
HubsGet(p) ==
    /\ kpc[p] = "hubs_get"
    /\ hsaw' = [hsaw EXCEPT ![p] = hhubs.present]
    /\ IF hhubs.present /\ hhubs.s # "" /\ HubsHit(himpl[p], Loads(hhubs.s))
       THEN CacheReturn(p, Loads(hhubs.s))
       ELSE kpc' = [kpc EXCEPT ![p] = "hubs_fetch"] /\ UNCHANGED kval
    /\ UNCHANGED <<notHub, kstore, kup, kop, kfetched, kfresh, kfirst, kinv,
                   kbegan, kgen, hhubs, himpl, harmFresh, hsettled, kput, kalone, kerr>>

\* get_hubs(): the store raises inside cache.get(), which returns None.
HubsGetStoreError(p) ==
    /\ kpc[p] = "hubs_get"
    /\ kpc' = [kpc EXCEPT ![p] = "hubs_fetch"]
    /\ UNCHANGED <<notHub, kstore, kup, kop, kval, kfetched, kfresh, kfirst,
                   kinv, kbegan, kgen, hubVars, kput, kalone, kerr>>

\* get_hubs(): the hub list and the details are requested upstream.
HubsFetch(p) ==
    /\ kpc[p] = "hubs_fetch"
    /\ kpc' = [kpc EXCEPT ![p] = "hubs_set"]
    /\ kval' = [kval EXCEPT ![p] = kup]
    /\ kfetched' = [kfetched EXCEPT ![p] = TRUE]
    /\ UNCHANGED <<notHub, kstore, kup, kop, kfresh, kfirst, kinv, kbegan, kgen,
                   hubVars, kput, kalone, kerr>>

\* get_hubs(): cache.set(key_hubs, enriched, CACHE_TTL_HUBS); ok says
\* whether the store took the write.
HubsSet(p, ok) ==
    /\ kpc[p] = "hubs_set"
    /\ hhubs' = IF ok THEN [present |-> TRUE, s |-> Dumps(kval[p]), gen |-> 0]
                ELSE hhubs
    /\ CacheReturn(p, kval[p])
    /\ UNCHANGED <<notHub, kstore, kup, kop, kfetched, kfresh, kfirst, kinv,
                   kbegan, kgen, himpl, hsaw, harmFresh, hsettled, kput, kalone, kerr>>

\* The TTL of the hub list entry elapses.
HubsExpire ==
    /\ hhubs.present
    /\ hhubs' = NoEntry
    /\ UNCHANGED <<notHub, cacheVars, himpl, hsaw, harmFresh, hsettled>>

\* The tenant's hub is removed from, or added to, the account upstream.
HubChange(v) ==
    /\ v \in HubStates \cup {"empty"}
    /\ (kup = "empty") # (v = "empty")
    /\ kup' = v
    /\ harmFresh' = FALSE
    /\ hsettled' = [q \in KCalls |-> FALSE]
    /\ UNCHANGED <<notHub, kstore, kpc, kop, kval, kfetched, kfresh, kfirst,
                   kinv, kbegan, kgen, hhubs, himpl, hsaw, kput, kalone, kerr>>

HubNext ==
    \/ \E p \in KCalls : GetHubDetails(p)
    \/ \E p \in KCalls : Get(p)
    \/ \E p \in KCalls : GetStoreError(p)
    \/ \E p \in KCalls : Fetch(p)
    \/ \E p \in KCalls : Set(p)
    \/ \E p \in KCalls : SetStoreError(p)
    \/ CacheExpire
    \/ \E p \in KCalls, v \in HubStates : ArmCommand(p, v)
    \/ \E p \in KCalls : ArmCommandFails(p)
    \/ \E p \in KCalls, ok \in BOOLEAN : ArmInvalidateHub(p, ok)
    \/ \E p \in KCalls, ok \in BOOLEAN : ArmInvalidateHubs(p, ok)
    \/ \E p \in KCalls, i \in Impls : GetHubs(p, i)
    \/ \E p \in KCalls : HubsGet(p)
    \/ \E p \in KCalls : HubsGetStoreError(p)
    \/ \E p \in KCalls : HubsFetch(p)
    \/ \E p \in KCalls, ok \in BOOLEAN : HubsSet(p, ok)
    \/ HubsExpire
    \/ \E v \in CacheValues : HubChange(v)

---------------------------------------------------------------------------
(***************************************************************************)
(* Login lockout: login_for_access_token with check_ip_lockout,            *)
(* track_login_failure and reset_login_failures, for the login requests    *)
(* of one client IP.  FAILED_LOGIN_LIMIT (5), LOCKOUT_DURATION_SECONDS     *)
(* (900) and the 24 h expiry of the failure counter are scaled down.       *)
(***************************************************************************)
NLoginReqs == 2             \* concurrent login requests
MaxAttempts == 5            \* login requests in all
LockMaxTime == 3            \* clock horizon, in lockout ticks
FAILED_LOGIN_LIMIT == 3     \* failures that lock the IP out
LOCKOUT_DURATION == 1       \* expiry of the lockout key, in ticks
FailCounterTtl == 2         \* expiry of the failure counter, in ticks

LockInit ==
    /\ lclock = 0
    /\ lfail = Absent
    /\ llock = Absent
    /\ lpc = [p \in (1..NLoginReqs) |-> "idle"]
    /\ lgood = [p \in (1..NLoginReqs) |-> FALSE]
    /\ lcount = [p \in (1..NLoginReqs) |-> 0]
    /\ lres = [p \in (1..NLoginReqs) |-> 0]
    /\ lattempts = 0
    /\ lacc = 0
    /\ laccTtl = 0
    /\ lseen = [p \in (1..NLoginReqs) |-> 0]
    /\ lsawLock = [p \in (1..NLoginReqs) |-> FALSE]
    /\ lasked = [p \in (1..NLoginReqs) |-> FALSE]

\* The handler answers with this status.
LoginAnswer(p, status) ==
    /\ lpc' = [lpc EXCEPT ![p] = "done"]
    /\ lres' = [lres EXCEPT ![p] = status]

\* A login request arrives from the IP, with good or bad credentials.
LoginBegin(p, good) ==
    /\ lpc[p] \in {"idle", "done"}
    /\ lattempts < MaxAttempts
    /\ lattempts' = lattempts + 1
    /\ lpc' = [lpc EXCEPT ![p] = "check"]
    /\ lgood' = [lgood EXCEPT ![p] = good]
    /\ lcount' = [lcount EXCEPT ![p] = 0]
    /\ lres' = [lres EXCEPT ![p] = 0]
    /\ lseen' = [lseen EXCEPT ![p] = 0]
    /\ lsawLock' = [lsawLock EXCEPT ![p] = FALSE]
    /\ lasked' = [lasked EXCEPT ![p] = FALSE]
    /\ NotOf("lock")
    /\ UNCHANGED <<lclock, lfail, llock, lacc, laccTtl>>

\* if await check_ip_lockout(client_ip): ... raise 403
CheckIpLockout(p) ==
    /\ lpc[p] = "check"
    /\ lsawLock' = [lsawLock EXCEPT ![p] = llock.present]
    /\ IF llock.present
       THEN LoginAnswer(p, 403)
       ELSE /\ lpc' = [lpc EXCEPT ![p] = "upstream"]
            /\ UNCHANGED lres
    /\ NotOf("lock")
    /\ UNCHANGED <<lclock, lfail, llock, lgood, lcount, lattempts, lacc,
                   laccTtl, lseen, lasked>>

\* ajax.login_with_credentials: accepted, or AjaxAuthError.
LoginWithCredentials(p) ==
    /\ lpc[p] = "upstream"
    /\ lasked' = [lasked EXCEPT ![p] = TRUE]
    /\ lpc' = [lpc EXCEPT ![p] = IF lgood[p] THEN "reset" ELSE "incr"]
    /\ NotOf("lock")
    /\ UNCHANGED <<lclock, lfail, llock, lgood, lcount, lres, lattempts,
                   lacc, laccTtl, lseen, lsawLock>>

\* reset_login_failures: DELETE failed_attempts:{ip}; the login answers 200.
ResetLoginFailures(p) ==
    /\ lpc[p] = "reset"
    /\ lfail' = Absent
    /\ lacc' = 0
    /\ laccTtl' = 0
    /\ LoginAnswer(p, 200)
    /\ NotOf("lock")
    /\ UNCHANGED <<lclock, llock, lgood, lcount, lattempts, lseen,
                   lsawLock, lasked>>

\* Where track_login_failure goes after its INCR (and after the EXPIRE of a
\* first failure): to the lockout when count >= FAILED_LOGIN_LIMIT, else it
\* returns and the login answers 401.
AfterCount(p, count, expired) ==
    IF count = 1 /\ ~expired
    THEN /\ lpc' = [lpc EXCEPT ![p] = "expire"]
         /\ UNCHANGED lres
    ELSE IF count >= FAILED_LOGIN_LIMIT
         THEN /\ lpc' = [lpc EXCEPT ![p] = "set_lock"]
              /\ UNCHANGED lres
         ELSE LoginAnswer(p, 401)

\* A tracker that would lock only above the limit.
TrackLoginFailureIncr_Late(p) ==
    /\ lpc[p] = "incr"
    /\ lfail' = Incr(lfail)
    /\ lcount' = [lcount EXCEPT ![p] = lfail'.v]
    /\ lacc' = lacc + 1
    /\ laccTtl' = laccTtl + 1
    /\ lseen' = [lseen EXCEPT ![p] = laccTtl + 1]
    /\ IF lfail'.v = 1
       THEN /\ lpc' = [lpc EXCEPT ![p] = "expire"]
            /\ UNCHANGED lres
       ELSE IF lfail'.v > FAILED_LOGIN_LIMIT
            THEN /\ lpc' = [lpc EXCEPT ![p] = "set_lock"]
                 /\ UNCHANGED lres
            ELSE LoginAnswer(p, 401)
    /\ NotOf("lock")
    /\ UNCHANGED <<lclock, llock, lgood, lattempts, lsawLock, lasked>>

\* track_login_failure: count = INCR failed_attempts:{ip}
TrackLoginFailureIncr(p) ==
    /\ lpc[p] = "incr"
    /\ lfail' = Incr(lfail)
    /\ lcount' = [lcount EXCEPT ![p] = lfail'.v]
    /\ lacc' = lacc + 1
    /\ laccTtl' = laccTtl + 1
    /\ lseen' = [lseen EXCEPT ![p] = laccTtl + 1]
    /\ AfterCount(p, lfail'.v, FALSE)
    /\ NotOf("lock")
    /\ UNCHANGED <<lclock, llock, lgood, lattempts, lsawLock, lasked>>

\* track_login_failure: if count == 1: EXPIRE failed_attempts:{ip} 86400
\* (no effect on a key that is gone).
TrackLoginFailureExpire(p) ==
    /\ lpc[p] = "expire"
    /\ lfail' = IF lfail.present
                THEN [lfail EXCEPT !.hasExp = TRUE, !.exp = lclock + FailCounterTtl]
                ELSE lfail
    /\ AfterCount(p, lcount[p], TRUE)
    /\ NotOf("lock")
    /\ UNCHANGED <<lclock, llock, lgood, lcount, lattempts, lacc,
                   laccTtl, lseen, lsawLock, lasked>>

\* track_login_failure: SET lockout:{ip} "1" ex=LOCKOUT_DURATION_SECONDS
TrackLoginFailureLock(p) ==
    /\ lpc[p] = "set_lock"
    /\ llock' = SetEx(1, LOCKOUT_DURATION, lclock)
    /\ lpc' = [lpc EXCEPT ![p] = "del_cnt"]
    /\ NotOf("lock")
    /\ UNCHANGED <<lclock, lfail, lgood, lcount, lres, lattempts, lacc,
                   laccTtl, lseen, lsawLock, lasked>>

\* track_login_failure: DELETE failed_attempts:{ip}; the login answers 401.
TrackLoginFailureDelete(p) ==
    /\ lpc[p] = "del_cnt"
    /\ lfail' = Absent
    /\ lacc' = 0
    /\ laccTtl' = 0
    /\ LoginAnswer(p, 401)
    /\ NotOf("lock")
    /\ UNCHANGED <<lclock, llock, lgood, lcount, lattempts, lseen,
                   lsawLock, lasked>>

\* Time passes; keys whose expiry is reached disappear.
LockTick ==
    /\ lclock < LockMaxTime
    /\ lclock' = lclock + 1
    /\ lfail' = Expire(lfail, lclock + 1)
    /\ llock' = Expire(llock, lclock + 1)
    /\ laccTtl' = IF lfail.present /\ ~lfail'.present THEN 0 ELSE laccTtl
    /\ NotOf("lock")
    /\ UNCHANGED <<lpc, lgood, lcount, lres, lattempts, lacc, lseen,
                   lsawLock, lasked>>

LockNext ==
    \/ LockTick
    \/ \E p \in (1..NLoginReqs), good \in BOOLEAN : LoginBegin(p, good)
    \/ \E p \in (1..NLoginReqs) :
          \/ CheckIpLockout(p)
          \/ LoginWithCredentials(p)
          \/ ResetLoginFailures(p)
          \/ TrackLoginFailureIncr(p)
          \/ TrackLoginFailureExpire(p)
          \/ TrackLoginFailureLock(p)
          \/ TrackLoginFailureDelete(p)

---------------------------------------------------------------------------
(***************************************************************************)
(* Per-client RateLimiter: RateLimiter.__call__ of                         *)
(* shared/infrastructure/redis/rate_limiter.py and services/rate_limiter.py *)
(* (the same code), for requests with and without a user and a client.      *)
(***************************************************************************)
NRlReqs == 2                \* concurrent requests
RlMaxCalls == 4             \* requests in all
RlMaxTime == 2              \* clock horizon, in limiter ticks
RlLimit == 2                \* limit
RlWindow == 1               \* window, in ticks

RlKeys == {"u1", "ip1", "unknown"}

\* user_id = getattr(request.state, "user_id", None)
\* if not user_id: user_id = request.client.host if request.client else "unknown"
RlKeyOf(user, host) ==
    IF user \notin {"None", ""} THEN user
    ELSE IF host # "None" THEN host ELSE "unknown"

RlInit ==
    /\ rclock = 0
    /\ rstore = [k \in RlKeys |-> Absent]
    /\ rpc = [p \in (1..NRlReqs) |-> "idle"]
    /\ ruser = [p \in (1..NRlReqs) |-> "None"]
    /\ rhost = [p \in (1..NRlReqs) |-> "None"]
    /\ rkey = [p \in (1..NRlReqs) |-> "unknown"]
    /\ rcount = [p \in (1..NRlReqs) |-> 0]
    /\ rres = [p \in (1..NRlReqs) |-> 0]
    /\ rcalls = 0
    /\ radm = [k \in RlKeys |-> 0]

\* A limiter that lets one more request through.
RateLimiterCall_OffByOne(p, user, host, ok) ==
    /\ rpc[p] \in {"idle", "done"}
    /\ rcalls < RlMaxCalls
    /\ rcalls' = rcalls + 1
    /\ LET k == RlKeyOf(user, host)
           n == Incr(rstore[k]).v
           fresh == IF rstore[k].present THEN radm[k] ELSE 0
       IN  /\ ruser' = [ruser EXCEPT ![p] = user]
           /\ rhost' = [rhost EXCEPT ![p] = host]
           /\ rkey' = [rkey EXCEPT ![p] = k]
           /\ IF ok
              THEN /\ rstore' = [rstore EXCEPT ![k] = Incr(rstore[k])]
                   /\ rcount' = [rcount EXCEPT ![p] = n]
                   /\ rres' = [rres EXCEPT ![p] = IF n > RlLimit + 1 THEN 429 ELSE 200]
                   /\ radm' = [radm EXCEPT ![k] =
                                 IF n > RlLimit + 1 THEN fresh ELSE fresh + 1]
                   /\ rpc' = [rpc EXCEPT ![p] = IF n = 1 THEN "expire" ELSE "done"]
              ELSE /\ rcount' = [rcount EXCEPT ![p] = 0]
                   /\ rres' = [rres EXCEPT ![p] = 500]
                   /\ rpc' = [rpc EXCEPT ![p] = "done"]
                   /\ UNCHANGED <<rstore, radm>>
    /\ NotOf("rl")
    /\ UNCHANGED <<rclock>>

\* __call__ up to the limit test: current_count = INCR key; the request is
\* admitted (True) or refused (429) by current_count > limit, after the EXPIRE
\* of a first increment.  ok = FALSE: the INCR raises and the request fails.
RateLimiterCall(p, user, host, ok) ==
    /\ rpc[p] \in {"idle", "done"}
    /\ rcalls < RlMaxCalls
    /\ rcalls' = rcalls + 1
    /\ LET k == RlKeyOf(user, host)
           n == Incr(rstore[k]).v
           fresh == IF rstore[k].present THEN radm[k] ELSE 0
       IN  /\ ruser' = [ruser EXCEPT ![p] = user]
           /\ rhost' = [rhost EXCEPT ![p] = host]
           /\ rkey' = [rkey EXCEPT ![p] = k]
           /\ IF ok
              THEN /\ rstore' = [rstore EXCEPT ![k] = Incr(rstore[k])]
                   /\ rcount' = [rcount EXCEPT ![p] = n]
                   /\ rres' = [rres EXCEPT ![p] = IF n > RlLimit THEN 429 ELSE 200]
                   /\ radm' = [radm EXCEPT ![k] =
                                 IF n > RlLimit THEN fresh ELSE fresh + 1]
                   /\ rpc' = [rpc EXCEPT ![p] = IF n = 1 THEN "expire" ELSE "done"]
              ELSE /\ rcount' = [rcount EXCEPT ![p] = 0]
                   /\ rres' = [rres EXCEPT ![p] = 500]
                   /\ rpc' = [rpc EXCEPT ![p] = "done"]
                   /\ UNCHANGED <<rstore, radm>>
    /\ NotOf("rl")
    /\ UNCHANGED <<rclock>>

\* if current_count == 1: EXPIRE key window (no effect on a key that is gone).
\* ok = FALSE: the EXPIRE raises, the request fails and the key keeps no expiry.
RateLimiterExpire(p, ok) ==
    /\ rpc[p] = "expire"
    /\ rpc' = [rpc EXCEPT ![p] = "done"]
    /\ IF ok
       THEN /\ rstore' = [rstore EXCEPT ![rkey[p]] =
                            IF @.present
                            THEN [@ EXCEPT !.hasExp = TRUE, !.exp = rclock + RlWindow]
                            ELSE @]
            /\ UNCHANGED rres
       ELSE /\ rres' = [rres EXCEPT ![p] = 500]
            /\ UNCHANGED rstore
    /\ NotOf("rl")
    /\ UNCHANGED <<rclock, ruser, rhost, rkey, rcount, rcalls, radm>>

\* Time passes; keys whose expiry is reached disappear.
RlTick ==
    /\ rclock < RlMaxTime
    /\ rclock' = rclock + 1
    /\ rstore' = [k \in RlKeys |-> Expire(rstore[k], rclock + 1)]
    /\ NotOf("rl")
    /\ UNCHANGED <<rpc, ruser, rhost, rkey, rcount, rres, rcalls, radm>>

RlNext ==
    \/ RlTick
    \* request.state.user_id is None, empty or a user; request.client is None
    \* or has a host
    \/ \E p \in (1..NRlReqs), user \in {"None", "", "u1"}, host \in {"None", "ip1"},
          ok \in BOOLEAN :
          RateLimiterCall(p, user, host, ok)
    \/ \E p \in (1..NRlReqs), ok \in BOOLEAN : RateLimiterExpire(p, ok)

---------------------------------------------------------------------------
(***************************************************************************)
(* get_hubs after a cache miss: the hub list is fetched, one detail        *)
(* request per hub is started, asyncio.gather joins them and the           *)
(* summaries are merged with the details by position.  A detail is         *)
(* represented by the hub it was fetched for.                              *)
(***************************************************************************)
MaxHubs == 3                \* longest hub list
MaxHubId == 2               \* hub ids 1..MaxHubId; 0: a summary without hubId
Pending == 0 - 1            \* a detail task that has not completed

\* The hubs the detail tasks are created for, in order.
\* services: [... for h in hubs_list if h.get('hubId')]
\* modules:  [... h["hubId"] for h in hubs_list]
EnrTasks ==
    IF eimpl = "services" THEN SelectSeq(ehubs, LAMBDA h : h # 0) ELSE ehubs

EnrInit ==
    /\ eimpl = "services"
    /\ ehubs = <<>>
    /\ efail = {}
    /\ edet = <<>>
    /\ eout = "idle"
    /\ erecs = <<>>

\* get_hubs is called, misses the cache and receives the hub list; the detail
\* tasks are created.
GetHubsCall(impl, hubs, fail) ==
    /\ eout = "idle"
    /\ eimpl' = impl
    /\ ehubs' = hubs
    /\ efail' = fail
    /\ edet' = [i \in 1..Len(EnrTasks') |-> Pending]
    /\ eout' = "run"
    /\ NotOf("enr")
    /\ UNCHANGED erecs

\* One detail request completes, in any order: gather keeps the results in
\* the order of the tasks.
FetchHubDetailsUncached(i) ==
    /\ eout = "run"
    /\ i \in 1..Len(edet)
    /\ edet[i] = Pending
    /\ \A h \in 1..Len(ehubs) : eimpl = "modules" => ehubs[h] # 0
    /\ edet' = [edet EXCEPT ![i] = IF EnrTasks[i] \in efail THEN 0 ELSE EnrTasks[i]]
    /\ NotOf("enr")
    /\ UNCHANGED <<eimpl, ehubs, efail, eout, erecs>>

\* modules/ajax/service.py: h["hubId"] of a summary without hubId raises
\* KeyError while the tasks are built; asyncio.gather(*tasks) raises the first
\* exception of a task.
GetHubsRaises ==
    /\ eout = "run"
    /\ eimpl = "modules"
    /\ \/ /\ \E h \in 1..Len(ehubs) : ehubs[h] = 0
          /\ eout' = "KeyError"
       \/ /\ \A h \in 1..Len(ehubs) : ehubs[h] # 0
          /\ \E i \in 1..Len(edet) : edet[i] = 0
          /\ eout' = "AjaxApiError"
    /\ NotOf("enr")
    /\ UNCHANGED <<eimpl, ehubs, efail, edet, erecs>>

\* The join and the merge.
\* services: details = await gather(*tasks, return_exceptions=True);
\*           for i, hub_summary in enumerate(hubs_list): detail = details[i];
\*           an exception leaves the summary alone, else {**hub_summary, **detail}
\* modules:  details = await gather(*tasks);
\*           [{**h, **d} for h, d in zip(hubs_list, details)]
GetHubsMerge ==
    /\ eout = "run"
    /\ \A i \in 1..Len(edet) : edet[i] # Pending
    /\ eimpl = "modules" => \A i \in 1..Len(edet) : ehubs[i] # 0 /\ edet[i] # 0
    /\ IF Len(ehubs) > Len(edet)
       THEN /\ eout' = "IndexError"
            /\ UNCHANGED erecs
       ELSE /\ eout' = "ok"
            /\ erecs' = [i \in 1..Len(ehubs) |-> [id |-> ehubs[i], det |-> edet[i]]]
    /\ NotOf("enr")
    /\ UNCHANGED <<eimpl, ehubs, efail, edet>>

EnrNext ==
    \/ \E impl \in {"services", "modules"},
          hubs \in UNION {[1..n -> 0..MaxHubId] : n \in 0..MaxHubs},
          fail \in SUBSET (1..MaxHubId) : GetHubsCall(impl, hubs, fail)
    \/ \E i \in 1..MaxHubs : FetchHubDetailsUncached(i)
    \/ GetHubsRaises
    \/ GetHubsMerge

---------------------------------------------------------------------------
(***************************************************************************)
(* The session keys of one tenant under concurrent login_with_credentials  *)
(* and refresh_session calls.  Each upstream response carries a session    *)
(* token, the user id and a refresh token; a key holds the number of the   *)
(* response its value came from.                                           *)
(***************************************************************************)
NSavers == 2                \* concurrent login / refresh calls
MaxResp == 3                \* upstream responses in all

SaveInit ==
    /\ wtoken = 0
    /\ wid = 0
    /\ wrefresh = 0
    /\ wpc = [c \in 1..NSavers |-> "idle"]
    /\ wresp = [c \in 1..NSavers |-> 0]
    /\ wnext = 0

\* login_with_credentials: POST /login answers with a new session;
\* refresh_session: the cached refresh token and user id are read (without
\* them it raises) and POST /refresh answers with a new session.
SessionResponse(c, kind) ==
    /\ wpc[c] \in {"idle", "done"}
    /\ wnext < MaxResp
    /\ kind = "refresh" => (wrefresh # 0 /\ wid # 0)
    /\ wnext' = wnext + 1
    /\ wresp' = [wresp EXCEPT ![c] = wnext + 1]
    /\ wpc' = [wpc EXCEPT ![c] = "set_token"]
    /\ NotOf("save")
    /\ UNCHANGED <<wtoken, wid, wrefresh>>

\* _save_session_data, one store write per step: SET token, SET id,
\* SET refresh; then the call returns.
SaveSessionData(c) ==
    /\ \/ /\ wpc[c] = "set_token"
          /\ wtoken' = wresp[c]
          /\ wpc' = [wpc EXCEPT ![c] = "set_id"]
          /\ UNCHANGED <<wid, wrefresh>>
       \/ /\ wpc[c] = "set_id"
          /\ wid' = wresp[c]
          /\ wpc' = [wpc EXCEPT ![c] = "set_refresh"]
          /\ UNCHANGED <<wtoken, wrefresh>>
       \/ /\ wpc[c] = "set_refresh"
          /\ wrefresh' = wresp[c]
          /\ wpc' = [wpc EXCEPT ![c] = "done"]
          /\ UNCHANGED <<wtoken, wid>>
    /\ NotOf("save")
    /\ UNCHANGED <<wresp, wnext>>

SaveNext ==
    \/ \E c \in 1..NSavers, kind \in {"login", "refresh"} : SessionResponse(c, kind)
    \/ \E c \in 1..NSavers : SaveSessionData(c)

---------------------------------------------------------------------------
Init ==
    /\ GateInit /\ AuthInit /\ ClientInit /\ CacheInit /\ HubInit
    /\ LockInit /\ RlInit /\ EnrInit /\ SaveInit

Next == GateNext \/ AuthNext \/ ClientNext \/ CacheNext \/ RoundTripNext
        \/ HubNext \/ LockNext \/ RlNext \/ EnrNext \/ SaveNext

Spec == Init /\ [][Next]_vars

SpecGate == Init /\ [][GateNext]_vars

\* The steps of caller c that the event loop and a responding store carry
\* out: every await of __call__ returns.  A store operation may raise
\* (GateStoreError) but is not bound to.
GateProgress(c) ==
    \/ GateReadTime(c)
    \/ GateGet(c)
    \/ GateSetTs(c)
    \/ GateSetCnt(c)
    \/ GateIncr(c)
    \/ GateDecr(c)
    \/ GateWake(c)

\* A call that begins with at least MAX_WAIT left before the clock horizon
\* (a later one could not see its deadline pass within the horizon).
GateCallInHorizon(c) ==
    /\ gateClock + MAX_WAIT <= GateMaxTime
    /\ GateCall(c)

GateLiveNext ==
    \/ GateTick
    \/ \E c \in Callers :
          \/ GateCallInHorizon(c)
          \/ GateProgress(c)
          \/ GateStoreError(c)

\* The gate with a running event loop and a clock that advances.
SpecGateLive ==
    /\ Init
    /\ [][GateLiveNext]_vars
    /\ WF_vars(GateTick)
    /\ \A c \in Callers : WF_vars(GateProgress(c))

SpecAuth == Init /\ [][AuthNext]_vars

SpecClient == Init /\ [][ClientNext]_vars

SpecCache == Init /\ [][CacheNext]_vars

SpecRoundTrip == Init /\ [][RoundTripNext]_vars

SpecHub == Init /\ [][HubNext]_vars

SpecLock == Init /\ [][LockNext]_vars

SpecRl == Init /\ [][RlNext]_vars

SpecEnr == Init /\ [][EnrNext]_vars

SpecSave == Init /\ [][SaveNext]_vars


---------------------------------------------------------------------------
(* Properties of the admission gate (under SpecGate).                      *)

\* C1: of the calls that fall within one window (the window a call is
\* admitted in is the one whose window_start it wrote or read), at most
\* LIMIT are admitted, under every interleaving of the store operations.
C1_AtMostLimitPerWindow == \A w \in GateTimes : admitted[w] <= LIMIT

---------------------------------------------------------------------------
(* Properties of the identity-token guard (under SpecAuth).                *)

\* C2: once a refresh token has been used successfully at the refresh
\* endpoint, every request that presents it afterwards ends in 401 and mints
\* nothing, at every moment of the token's life.
C2_ReplayAlwaysFails ==
    \A r \in Reqs :
        (akind[r] = "refresh" /\ arotBefore[r] /\ apc[r] = "done") => ares[r] = "401"

\* C3: of the refresh requests that present the same refresh token and run
\* concurrently, at most one mints a new pair.
C3_AtMostOneConcurrentMint ==
    \A p, q \in Reqs :
        (/\ p # q
         /\ akind[p] = "refresh" /\ akind[q] = "refresh"
         /\ atok[p] = atok[q]
         /\ (q \in apeers[p] \/ p \in apeers[q])
         /\ ares[p] = "minted")
        => ares[q] # "minted"

\* C4: get_current_user, given an access token this service minted that
\* decodes (valid signature, unexpired), answers 401 and writes the CRITICAL
\* SECURITY_ALERT_UA_MISMATCH event whenever the hash of the request's
\* User-Agent differs from the hash embedded in the token.
C4_FingerprintMismatchRejected ==
    [][\A r \in Reqs :
          (/\ apc[r] = "verify" /\ apc'[r] # "verify"
           /\ DecodeOk(atok[r], authClock)
           /\ issued[atok[r]].type = "access"
           /\ issued[atok[r]].uah # Sha256(aua[r]))
          => (/\ apc'[r] = "done"
              /\ ares'[r] = "401"
              /\ "SECURITY_ALERT_UA_MISMATCH" \in aaudit'[r])]_vars

\* C4 witness: a protected call presenting an unrevoked access token minted
\* by a refresh has been rejected with the fingerprint-mismatch event.
C4_Witness ==
    \E r \in Reqs :
        /\ apc[r] = "done" /\ akind[r] = "gcu" /\ ares[r] = "401"
        /\ atok[r] > 2
        /\ issued[atok[r]].type = "access"
        /\ ~IsRevoked(atok[r])
        /\ aaudit[r] = {"SECURITY_ALERT_UA_MISMATCH"}

\* C5: after a logout with an access token has returned, every later
\* protected call that presents the token is rejected (an expired token is
\* rejected anyway), so none is accepted before the token expires.
C5_LoggedOutAlwaysRejected ==
    \A r \in Reqs :
        (akind[r] \in {"gcu", "logout"} /\ aloBefore[r] /\ apc[r] # "verify")
        => (apc[r] = "done" /\ ares[r] \in {"401", "500"})

\* C6: a request of get_current_user or of the refresh endpoint during
\* which a store operation raised yields neither an identity nor tokens.
C6_FailClosed ==
    \A r \in Reqs :
        (aerr[r] /\ akind[r] \in {"gcu", "refresh"})
        => (apc[r] = "done" /\ ares[r] \in {"401", "500"})

\* C6 witness: the store has failed under a protected call whose token
\* passed every earlier check, and under a refresh of a valid refresh token.
C6_Witness ==
    \E p, q \in Reqs :
        /\ akind[p] = "gcu" /\ aerr[p] /\ apc[p] = "done"
        /\ akind[q] = "refresh" /\ aerr[q] /\ apc[q] = "done"

---------------------------------------------------------------------------
(***************************************************************************)
(* Properties of the upstream gateway client (under SpecClient).           *)
(***************************************************************************)

\* C7: within one request() a second upstream HTTP call is made only after
\* the first returned 401 and after exactly one refresh_session call made
\* for that 401, and at most once: never more than two HTTP calls, and any
\* other error status of the first call is raised after that call, with no
\* refresh and no retry.
C7_AtMostOneRetry ==
    \A r \in CReqs :
        /\ creq[r].http <= 2
        /\ creq[r].retryRefs <= 1
        /\ creq[r].pc = "call2" => (creq[r].st1 = 401 /\ creq[r].retryRefs = 1
                                    /\ creq[r].http = 1)
        /\ creq[r].http = 2 => (creq[r].st1 = 401 /\ creq[r].retryRefs = 1
                                /\ creq[r].pc = "done")
        /\ creq[r].st1 = 500 => (creq[r].pc = "done" /\ creq[r].http = 1
                                 /\ creq[r].retryRefs = 0
                                 /\ creq[r].res = "HTTPStatusError")

\* C7 witness: a request has returned the upstream response after a 401, one
\* refresh and the one retried call.
C7_Witness ==
    \E r \in CReqs :
        /\ creq[r].pc = "done" /\ creq[r].res = "ok"
        /\ creq[r].st1 = 401 /\ creq[r].http = 2 /\ creq[r].retryRefs = 1

\* C8 as stated: a request that begins with the session token expired (gone
\* from the cache, or cached and rejected upstream) and a cached refresh
\* token the upstream accepts, and that runs undisturbed, succeeds with
\* exactly one refresh call and exactly one retried HTTP call (two calls).
C8_OneRefreshOneRetry ==
    \A r \in CReqs :
        (creq[r].pc = "done" /\ creq[r].begun \in {"missing", "stale"}
         /\ creq[r].quiet)
        => (creq[r].res = "ok" /\ creq[r].refs = 1 /\ creq[r].http = 2)

\* C8 amended: such a request succeeds with exactly one refresh call; it
\* makes one retried HTTP call (two calls) when the stale token was still
\* cached, and a single HTTP call, none of them retried, when the token was
\* no longer in the cache.
C8_TransparentRefresh ==
    \A r \in CReqs :
        (creq[r].pc = "done" /\ creq[r].begun \in {"missing", "stale"}
         /\ creq[r].quiet)
        => /\ creq[r].res = "ok"
           /\ creq[r].refs = 1
           /\ creq[r].http = (IF creq[r].begun = "stale" THEN 2 ELSE 1)
           /\ creq[r].retryRefs = (IF creq[r].begun = "stale" THEN 1 ELSE 0)

\* C8 witness: a request that found no cached token has refreshed once and
\* succeeded with a single HTTP call.
C8_Witness ==
    \E r \in CReqs :
        /\ creq[r].pc = "done" /\ creq[r].begun = "missing" /\ creq[r].quiet
        /\ creq[r].res = "ok" /\ creq[r].refs = 1 /\ creq[r].http = 1

\* C9: when the retried HTTP call also returns 401, request() fails with
\* AjaxAuthError, not with a generic HTTP-status error, and makes no further
\* refresh or HTTP call.
C9_SecondUnauthorizedIsAuthError ==
    \A r \in CReqs :
        creq[r].st2 = 401
        => (creq[r].pc = "done" /\ creq[r].res = "AjaxAuthError"
            /\ creq[r].http = 2 /\ creq[r].retryRefs = 1)

---------------------------------------------------------------------------
(***************************************************************************)
(* Properties of the response cache (under SpecCache).                     *)
(***************************************************************************)

\* C10: the first get_or_fetch(key) that begins after an invalidate(key) has
\* returned never returns a value that was cached, or fetched, before that
\* invalidate returned (which it would not if it always invoked fetch_func),
\* whatever other get_or_fetch calls for the key are in flight and whether
\* or not the store's delete succeeded.
C10_NoStaleReadAfterInvalidate ==
    \A p \in KCalls :
        (kop[p] = "get_or_fetch" /\ kfirst[p] /\ kpc[p] = "done")
        => kgen[p] >= kbegan[p]

---------------------------------------------------------------------------
(***************************************************************************)
(* Properties of the hub reads and the arm command (under SpecHub).        *)
(***************************************************************************)

\* C11: the next get_hub_details begun after a successful set_arm_state has
\* returned (no other command or upstream change since) returns the hub's
\* new state, not a value cached before the command.
C11_ReadAfterArmIsFresh ==
    \A p \in KCalls :
        (kop[p] = "get_or_fetch" /\ kpc[p] = "done" /\ hsettled[p])
        => kval[p] = kup

\* C12: a get_hubs call that reads a live hub list entry from the store
\* returns it and makes no upstream call, whatever the cached value is (an
\* empty list included): of two hub-list calls within the TTL only the
\* first goes upstream.
C12_LiveEntryMeansNoFetch ==
    \A p \in KCalls :
        (kop[p] = "get_hubs" /\ kpc[p] = "done" /\ hsaw[p]) => ~kfetched[p]

---------------------------------------------------------------------------
(***************************************************************************)
(* Properties of set followed by get (under SpecRoundTrip).                *)
(***************************************************************************)

\* C13: for every payload v that set accepts, set(key, v, ttl) immediately
\* followed by get(key), with no other write in between, returns a value
\* structurally equal to v.
C13_SetGetRoundTrip ==
    \A p \in KCalls :
        (kop[p] = "set_get" /\ kpc[p] = "done" /\ kalone[p])
        => kval[p] = kput[p]

C16_FailOpen ==
    \A c \in Callers :
        gerr[c] => (gpc[c] = "done" /\ gres[c] = "failopen")

\* C16 witness: the DECR of a call that had found the window full raised
\* (the counter is left above LIMIT), and the call was admitted.
C16_Witness ==
    \E c \in Callers :
        /\ gerr[c] /\ gpc[c] = "done" /\ gres[c] = "failopen"
        /\ gcnt.present /\ gcnt.v > LIMIT

\* C17: in every reachable state the shared counter is at most LIMIT + 1,
\* with any number of concurrent callers.
C17_CounterAtMostLimitPlusOne ==
    gcnt.present => gcnt.v <= LIMIT + 1

\* C18: when two request() calls of the tenant both begin with the session
\* token expired (gone from the cache; refresh token and user id cached and
\* accepted upstream) and both refresh, with no login, upstream revocation
\* or upstream 5xx meanwhile, both calls end with a response after at most
\* two upstream calls each, and the store is left with the token pair of the
\* last refresh the upstream granted.
C18_RefreshRaceTolerated ==
    \A r, o \in CReqs :
        (/\ r # o
         /\ creq[r].pc = "done" /\ creq[o].pc = "done"
         /\ creq[r].begun = "missing" /\ creq[o].begun = "missing"
         /\ creq[r].calm /\ creq[o].calm)
        => /\ creq[r].res = "ok"
           /\ creq[r].http <= 2
           /\ stoken.present => stoken.v = unext
           /\ srefresh.present /\ srefresh.v = unext

\* C19: the cached refresh token rotates on every use, so a refresh token
\* the upstream has already accepted at /refresh is never sent to it again.
C19_ConsumedRefreshNeverResent ==
    \A r \in CReqs : ~creq[r].resent

\* C20: get_current_user, given an access token that decodes, has the
\* access type, matches the User-Agent fingerprint and is not revoked,
\* accepts the request when the IP embedded in the token differs from the
\* request's IP, writes the WARNING event SECURITY_INFO_IP_SHIFT and
\* creates a user notification.
C20_IpShiftAcceptedAndNotified ==
    [][\A r \in Reqs :
          (/\ apc[r] = "verify" /\ apc'[r] # "verify"
           /\ ~aerr'[r]
           /\ GcuReachesLookup(r)
           /\ ~IsRevoked(atok[r])
           /\ GcuIpShift(r))
          => (/\ ares'[r] # "401"
              /\ (akind[r] = "gcu" => ares'[r] = "accepted")
              /\ "SECURITY_INFO_IP_SHIFT" \in aaudit'[r]
              /\ anotif'[r])]_vars

\* C21: a token this service minted is accepted only for the use its type
\* declares: the refresh endpoint answers 401 to a token whose type is not
\* "refresh", minting nothing and leaving the revocation set as it was, and
\* get_current_user answers 401 to a token whose type is not "access".
C21_TypeDecidesUse ==
    [][\A r \in Reqs :
          (/\ apc[r] \in {"verify", "rf_check"} /\ apc'[r] # apc[r]
           /\ atok[r] \in 1..Len(issued)
           /\ issued[atok[r]].type #
                 (IF akind[r] = "refresh" THEN "refresh" ELSE "access"))
          => (/\ apc'[r] = "done"
              /\ ares'[r] = "401"
              /\ blacklist' = blacklist
              /\ issued' = issued)]_vars

\* C21 witness: an unexpired, unrevoked access token has been refused at the
\* refresh endpoint and an unexpired, unrevoked refresh token has been
\* refused on a protected call.
C21_Witness ==
    \E p, q \in Reqs :
        /\ apc[p] = "done" /\ akind[p] = "refresh" /\ ares[p] = "401"
        /\ DecodeOk(atok[p], authClock) /\ issued[atok[p]].type = "access"
        /\ ~IsRevoked(atok[p]) /\ ~aerr[p]
        /\ apc[q] = "done" /\ akind[q] = "gcu" /\ ares[q] = "401"
        /\ DecodeOk(atok[q], authClock) /\ issued[atok[q]].type = "refresh"
        /\ ~IsRevoked(atok[q]) /\ ~aerr[q]

\* C22 (as stated): whenever FAILED_LOGIN_LIMIT failed logins of the IP have
\* accumulated since the failure counter was last deleted by a successful login
\* or by a previous lockout, a lockout of the IP is under way.
C22_LockedAtLimitSinceReset ==
    (lacc >= FAILED_LOGIN_LIMIT)
        => \E p \in (1..NLoginReqs) : lpc[p] \in {"set_lock", "del_cnt"}

\* C22 (amended): the IP is locked out exactly when FAILED_LOGIN_LIMIT failed
\* logins have accumulated since the failure counter was last reset by a
\* successful login, by a previous lockout or by the expiry of the counter key:
\* at the limit a lockout is under way, a lockout is only begun by a request
\* that saw the limit reached, it sets the lockout key for LOCKOUT_DURATION and
\* then deletes the counter; and a login whose check found the lockout key is
\* answered 403 without an upstream credential check.
C22_LockoutAtLimit ==
    /\ [](/\ (laccTtl >= FAILED_LOGIN_LIMIT)
                => \E p \in (1..NLoginReqs) : lpc[p] \in {"set_lock", "del_cnt"}
          /\ \A p \in (1..NLoginReqs) :
                /\ lpc[p] \in {"set_lock", "del_cnt"}
                      => lseen[p] >= FAILED_LOGIN_LIMIT
                /\ lsawLock[p]
                      => (lpc[p] = "done" /\ lres[p] = 403 /\ ~lasked[p]))
    /\ [][\A p \in (1..NLoginReqs) :
            /\ (lpc[p] = "set_lock" /\ lpc'[p] # lpc[p])
                  => (/\ lpc'[p] = "del_cnt"
                      /\ llock'.present
                      /\ llock'.exp = lclock + LOCKOUT_DURATION)
            /\ (lpc[p] = "del_cnt" /\ lpc'[p] # lpc[p])
                  => (~lfail'.present /\ lres'[p] = 401)]_vars

\* C22 witness: a third failure locked the IP out, and a later login was
\* answered 403 at the lockout check.
C22_Witness ==
    \E p, q \in (1..NLoginReqs) :
        /\ p # q
        /\ lpc[p] = "done" /\ lres[p] = 401 /\ lseen[p] = FAILED_LOGIN_LIMIT
        /\ lpc[q] = "done" /\ lres[q] = 403 /\ lsawLock[q] /\ ~lasked[q]
        /\ ~lfail.present

C24_RevokedRejectedBeforeEvents ==
    [][\A r \in Reqs :
          (/\ apc[r] = "verify" /\ apc'[r] # "verify"
           /\ DecodeOk(atok[r], authClock)
           /\ issued[atok[r]].type = "access"
           /\ IsRevoked(atok[r])
           /\ ~aerr'[r])
          => (ares'[r] = "401" /\ aaudit'[r] = {})]_vars

\* C25: when every summary has a hubId and the detail fetch of some hub fails,
\* get_hubs still succeeds, returns the failed hubs as their summaries only and
\* every other hub enriched with its own detail.
C25_FailedDetailDegrades ==
    (/\ eout \notin {"idle", "run"}
     /\ \A i \in 1..Len(ehubs) : ehubs[i] # 0
     /\ \E i \in 1..Len(ehubs) : ehubs[i] \in efail)
    => (/\ eout = "ok"
        /\ Len(erecs) = Len(ehubs)
        /\ \A i \in 1..Len(ehubs) :
              /\ erecs[i].id = ehubs[i]
              /\ erecs[i].det = (IF ehubs[i] \in efail THEN 0 ELSE ehubs[i]))

\* C30: for every hub list, summaries without a hubId included, every record
\* get_hubs returns is a summary merged with the detail of the same hub (or
\* left alone), and the merge never indexes past the fetched details.
C30_PositionalPairing ==
    /\ eout # "IndexError"
    /\ eout = "ok" =>
          /\ Len(erecs) = Len(ehubs)
          /\ \A i \in 1..Len(ehubs) :
                erecs[i].id = ehubs[i] /\ erecs[i].det \in {0, ehubs[i]}

\* C26: a store failure is never surfaced to the caller of a cached read: a
\* get_or_fetch whose store GET raised goes on to fetch live, one whose store
\* SET raised still returns the value it fetched, an invalidate whose DELETE
\* raised returns, and no call ends with the store's exception.
C26_StoreFailureNotSurfaced ==
    /\ [](\A p \in KCalls :
            /\ kval[p] # "StoreError"
            /\ "get" \in kerr[p]
                  => (/\ kpc[p] \in {"gof_fetch", "gof_set", "done"}
                      /\ kpc[p] \in {"gof_set", "done"} => kfetched[p])
            /\ "set" \in kerr[p] => (kpc[p] = "done" /\ kfetched[p])
            /\ "delete" \in kerr[p] => (kpc[p] = "done" /\ kval[p] = "none"))
    /\ [][\A p \in KCalls :
            (kpc[p] = "gof_set" /\ kpc'[p] # "gof_set")
               => (kpc'[p] = "done" /\ kval'[p] = kval[p])]_vars

\* C26 witness: a get_or_fetch whose GET and SET both raised while a live
\* entry was stored returned the value it fetched, and an invalidate whose
\* DELETE raised returned.
C26_Witness ==
    \E p, q \in KCalls :
        /\ kpc[p] = "done" /\ kop[p] = "get_or_fetch"
        /\ kerr[p] = {"get", "set"} /\ kfetched[p] /\ kval[p] = kup
        /\ kstore.present /\ Loads(kstore.s) # kval[p]
        /\ kpc[q] = "done" /\ kop[q] = "invalidate" /\ kerr[q] = {"delete"}

\* C27: in every reachable state the shared counter is not negative and is not
\* lower than the number of requests already admitted in the current window.
C27_CounterCoversAdmitted ==
    gcnt.present =>
        /\ gcnt.v >= 0
        /\ gts.present => gcnt.v >= admitted[gts.v]

\* C28: once every login_with_credentials and refresh_session call of the
\* tenant has completed, the cached session token, refresh token and user id
\* all come from the same upstream response.
C28_SessionDataFromOneResponse ==
    (/\ \A c \in 1..NSavers : wpc[c] \in {"idle", "done"}
     /\ wtoken # 0)
    => (wrefresh = wtoken /\ wid = wtoken)

\* C29: a logout or a refresh adds at most one jti to the revocation set, the
\* jti of the token presented, and changes the entry of no other jti; an
\* entry disappears only when its TTL has elapsed.
C29_RevocationFrame ==
    [][/\ Cardinality({j \in Jtis : blacklist'[j].present /\ ~blacklist[j].present}) <= 1
       /\ \A j \in Jtis :
             /\ (blacklist'[j] # blacklist[j] /\ blacklist'[j].present)
                   => \E r \in Reqs :
                         /\ atok[r] = j
                         /\ apc[r] \in {"lo_revoke", "rf_rotate"}
                         /\ apc'[r] = "done"
             /\ (blacklist[j].present /\ ~blacklist'[j].present)
                   => (/\ authClock' = authClock + 1
                       /\ blacklist[j].hasExp
                       /\ blacklist[j].exp <= authClock')]_vars

\* C29 witness: a refresh token was rotated and the access token minted by
\* the rotation was logged out; both are revoked, while the access token
\* issued with the rotated refresh token and the refresh token issued with the
\* logged-out access token are not.
C29_Witness ==
    \E p, q \in Reqs :
        /\ apc[p] = "done" /\ ares[p] = "minted" /\ atok[p] = 2
        /\ apc[q] = "done" /\ ares[q] = "logged_out" /\ atok[q] = 3
        /\ Len(issued) >= 4
        /\ issued[1].type = "access" /\ issued[4].type = "refresh"
        /\ blacklist[2].present /\ blacklist[3].present
        /\ ~blacklist[1].present /\ ~blacklist[4].present

=========================================================================
